---- MODULE Spec2Model ----
(***************************************************************************)
(* FIFOEE: a FIFO of variable size data blocks kept in a ring buffer over  *)
(* EEPROM (fifoee.h, one-bit-status / 7-bit-size header variant).          *)
(*                                                                         *)
(* Addresses are the byte addresses the class uses: the FIFO buffer starts *)
(* at aBuffer, its first byte holds botBlockOffset and the ring buffer is  *)
(* the rBufSize bytes from pRBufStart up to (excluding) pRBufEnd.          *)
(***************************************************************************)
EXTENDS Integers, Sequences, FiniteSets, TLC

\* ------------------------------------------------------------------------
\* constants of fifoee.h
\* ------------------------------------------------------------------------
BUFFER_SIZE_MIN == 5
FIFOEE_DATA_SIZE_MAX == 127
BLOCK_SIZE_MAX == FIFOEE_DATA_SIZE_MAX + 1
FREE_BLOCK == 128
USED_BLOCK == 0
BLOCK_STATUS_BIT == 128
BLOCK_SIZE_BITS == 127

\* enum returnStatus
SUCCESS == 0
FIFO_EMPTY == 1
FIFO_FULL == 2
INVALID_FIFO_BUFFER_SIZE == 3
INVALID_BLOCK_HEADER == 4
DATA_BUFFER_SMALL == 5
PUSH_BLOCK_NOT_FREE == 6
UNCLOSED_BLOCK_LIST == 7
WRONG_RBUFFER_SIZE == 8

\* ------------------------------------------------------------------------
\* bounds of the model
\* ------------------------------------------------------------------------
\* largest FIFO buffer size (aBufSize) given to the constructor
MaxBufSize == 6

\* the FIFO buffer sizes the constructor is called with
BufSizes == BUFFER_SIZE_MIN..MaxBufSize
\* the payload bytes pushed: 0x00 is the invalid header, 0x81 reads as the
\* header of a free block of 2 bytes
DataBytes == {0, 129}
\* the data buffer sizes given to pop and read
DataBufSizes == {0, FIFOEE_DATA_SIZE_MAX}

VARIABLES
  buffer,     \* the FIFO buffer bytes, address -> 0..255
  rBufSize,   \* ring buffer size
  pPush,      \* address of the first free block, the queue tail
  pPop,       \* address of the oldest used block, the queue head
  pRead,      \* address of the next block to read
  op,         \* the method called last
  rc,         \* the status it returned
  data,       \* the caller's data buffer content after pop/read
  size,       \* the caller's dataSize after pop/read
  ready,      \* the last format/begin left a usable FIFO
  pushed,     \* records pushed with success and not yet popped, oldest first
  nread,      \* how many of them, the oldest ones, read has delivered
  esp,        \* built for ESP8266/ESP32 without FIFOEE_RAM: EE_WRITE goes to
              \* a RAM cache that EEPROM.commit() stores into flash
  commitPeriod, \* minimum period (ms) between two commits, 0: no commit
  nextCommit, \* time (ms) before which commitRequest does not commit
  millis,     \* the clock: ms since power up
  flash,      \* the FIFO buffer bytes as last committed to flash
  committed,  \* the method called last did call EEPROM.commit()
  lastCommit, \* the time (ms) of the last EEPROM.commit()
  flushed,    \* the records queued at the last EEPROM.commit()
  eepromBegin, \* EEPROM.begin() is still to be called (ESP8266, ESP32)
  loop        \* the call in progress: where it stands and its local values

vars == <<buffer, rBufSize, pPush, pPop, pRead, op, rc, data, size, ready,
          pushed, nread, esp, commitPeriod, nextCommit, millis, flash,
          committed, lastCommit, flushed, eepromBegin, loop>>

\* ------------------------------------------------------------------------
\* constructor: addresses
\* ------------------------------------------------------------------------
aBuffer == 0
pBotBlockOffset == aBuffer
pRBufStart == aBuffer + 1
pRBufEnd == pRBufStart + rBufSize

\* ------------------------------------------------------------------------
\* medium access and header fields
\* ------------------------------------------------------------------------
EE_READ(buf, addr) == buf[addr]

EE_WRITE(buf, addr, val) == [buf EXCEPT ![addr] = val % 256]

\* blockHeader & BLOCK_STATUS_BIT
StatusOf(blockHeader) == (blockHeader \div 128) * 128

\* the block size, were it the data size alone: no step forward on a block
\* of no data
SpanOf_DataSize(blockHeader) == blockHeader % 128

\* (blockHeader & BLOCK_SIZE_BITS) + 1
SpanOf(blockHeader) == (blockHeader % 128) + 1

\* (blockHeader & BLOCK_STATUS_BIT) == FREE_BLOCK
IsFreeHeader(blockHeader) == StatusOf(blockHeader) = FREE_BLOCK

\* FREE_BLOCK | v, v an (unsigned) byte value
FreeHeader(v) == IF (v % 256) >= 128 THEN v % 256 ELSE 128 + (v % 256)

\* the header of a used block, were its data size held in 6 bits
UsedHeader_SixBits(v) == v % 64

\* USED_BLOCK | v
UsedHeader(v) == v % 256

\* while (pBlock >= pRBufEnd) pBlock -= rBufSize;
RECURSIVE WrapPtr(_)
WrapPtr(pBlock) ==
  IF pBlock >= pRBufEnd THEN WrapPtr(pBlock - rBufSize) ELSE pBlock

\* a write list applied in order: every cell holds the value of the last
\* EE_WRITE to it
ApplyWrites(buf, writes) ==
  [addr \in DOMAIN buf |->
     LET hits == {i \in 1..Len(writes) : writes[i][1] = addr} IN
     IF hits = {} THEN buf[addr]
     ELSE LET last == CHOOSE i \in hits : \A j \in hits : j <= i IN
          EE_WRITE(buf, addr, writes[last][2])[addr]]

\* ------------------------------------------------------------------------
\* format
\* ------------------------------------------------------------------------
\* the value of a non-void function that ends without a return statement
UndefinedInt == SUCCESS..WRONG_RBUFFER_SIZE

\* format, were it to write one free block for the whole ring buffer
FormatFill_OneBlock(pBlock, sizeToFill) ==
  << <<pBlock, FreeHeader(sizeToFill - 1)>> >>

\* the free headers format writes from pBlock on, in order
RECURSIVE FormatFill(_, _)
FormatFill(pBlock, sizeToFill) ==
  IF sizeToFill > BLOCK_SIZE_MAX
    THEN << <<pBlock, FreeHeader(FIFOEE_DATA_SIZE_MAX)>> >>
         \o FormatFill(pBlock + BLOCK_SIZE_MAX, sizeToFill - BLOCK_SIZE_MAX)
    ELSE << <<pBlock, FreeHeader(sizeToFill - 1)>> >>

\* all the writes of format, in order
FormatWrites ==
  << <<pBotBlockOffset, 0>> >> \o FormatFill(pRBufStart, rBufSize)

\* an EEPROM never written: every cell reads 0xff
ErasedBuffer(aBufSize) == [addr \in aBuffer..(aBuffer + aBufSize - 1) |-> 255]

\* ------------------------------------------------------------------------
\* begin
\* ------------------------------------------------------------------------
\* the loop of begin, were it to take every header it reads as valid
RECURSIVE BeginScan_NoZeroCheck(_, _, _, _, _, _, _)
BeginScan_NoZeroCheck(buf, pBotBlock, pBlock0, blockHeader0, oldStatus, detected0, cur) ==
  LET pBlock == pBlock0 + SpanOf(blockHeader0) IN
  IF pBlock >= pRBufEnd
    THEN IF pBotBlock # pBlock - rBufSize
           THEN [cur EXCEPT !.rc = UNCLOSED_BLOCK_LIST]
         ELSE IF rBufSize # detected0
           THEN [cur EXCEPT !.rc = WRONG_RBUFFER_SIZE]
         ELSE [cur EXCEPT !.rc = SUCCESS]
    ELSE
      LET blockHeader == EE_READ(buf, pBlock)
          blockStatus == StatusOf(blockHeader)
          detected == detected0 + SpanOf(blockHeader)
      IN
      IF oldStatus = blockStatus
        THEN BeginScan_NoZeroCheck(buf, pBotBlock, pBlock, blockHeader,
                                   oldStatus, detected, cur)
      ELSE IF oldStatus = FREE_BLOCK
        THEN BeginScan_NoZeroCheck(buf, pBotBlock, pBlock, blockHeader,
                                   blockStatus, detected,
                                   [cur EXCEPT !.pPop = pBlock,
                                               !.pRead = pBlock])
        ELSE BeginScan_NoZeroCheck(buf, pBotBlock, pBlock, blockHeader,
                                   blockStatus, detected,
                                   [cur EXCEPT !.pPush = pBlock])

\* the while (1) loop of begin, one iteration per call; cur holds the
\* pointers found so far
RECURSIVE BeginScan(_, _, _, _, _, _, _)
BeginScan(buf, pBotBlock, pBlock0, blockHeader0, oldStatus, detected0, cur) ==
  LET pBlock == pBlock0 + SpanOf(blockHeader0) IN
  IF pBlock >= pRBufEnd
    THEN IF pBotBlock # pBlock - rBufSize
           THEN [cur EXCEPT !.rc = UNCLOSED_BLOCK_LIST]
         ELSE IF rBufSize # detected0
           THEN [cur EXCEPT !.rc = WRONG_RBUFFER_SIZE]
         ELSE [cur EXCEPT !.rc = SUCCESS]
    ELSE
      LET blockHeader == EE_READ(buf, pBlock) IN
      IF blockHeader = 0
        THEN [cur EXCEPT !.rc = INVALID_BLOCK_HEADER]
        ELSE
          LET blockStatus == StatusOf(blockHeader)
              detected == detected0 + SpanOf(blockHeader)
          IN
          IF oldStatus = blockStatus
            THEN BeginScan(buf, pBotBlock, pBlock, blockHeader, oldStatus,
                           detected, cur)
          ELSE IF oldStatus = FREE_BLOCK
            THEN BeginScan(buf, pBotBlock, pBlock, blockHeader, blockStatus,
                           detected,
                           [cur EXCEPT !.pPop = pBlock, !.pRead = pBlock])
            ELSE BeginScan(buf, pBotBlock, pBlock, blockHeader, blockStatus,
                           detected, [cur EXCEPT !.pPush = pBlock])

\* begin, were it to leave the read pointer where it was at the call
begin_KeepRead(buf, cur0) ==
  LET pBotBlock == pRBufStart + EE_READ(buf, pBotBlockOffset)
      blockHeader == EE_READ(buf, pBotBlock)
  IN
  IF blockHeader = 0
    THEN [cur0 EXCEPT !.rc = INVALID_BLOCK_HEADER]
    ELSE [BeginScan(buf, pBotBlock, pBotBlock, blockHeader,
                    StatusOf(blockHeader), SpanOf(blockHeader),
                    [rc |-> SUCCESS, pPush |-> pBotBlock, pPop |-> pBotBlock,
                     pRead |-> pBotBlock])
            EXCEPT !.pRead = cur0.pRead]

\* begin: the status returned and the three pointers it leaves, cur0 being
\* the pointers held at the call
begin(buf, cur0) ==
  LET pBotBlock == pRBufStart + EE_READ(buf, pBotBlockOffset)
      blockHeader == EE_READ(buf, pBotBlock)
  IN
  IF blockHeader = 0
    THEN [cur0 EXCEPT !.rc = INVALID_BLOCK_HEADER]
    ELSE BeginScan(buf, pBotBlock, pBotBlock, blockHeader,
                   StatusOf(blockHeader), SpanOf(blockHeader),
                   [rc |-> SUCCESS, pPush |-> pBotBlock, pPop |-> pBotBlock,
                    pRead |-> pBotBlock])

\* ------------------------------------------------------------------------
\* push
\* ------------------------------------------------------------------------
\* the merge loop, were it to take in every block it meets, used ones too
RECURSIVE MergeFree_AnyStatus(_, _, _, _)
MergeFree_AnyStatus(buf, push, n, blockSize) ==
  IF n + 1 > blockSize
    THEN LET pBlock == WrapPtr(push + blockSize) IN
         IF pBlock = push THEN -1
         ELSE MergeFree_AnyStatus(buf, push, n,
                blockSize + SpanOf(EE_READ(buf, pBlock)))
    ELSE blockSize

\* push, were it to give up where the block at pPush is too small, merging
\* nothing
RECURSIVE MergeFree_NoMerge(_, _, _, _)
MergeFree_NoMerge(buf, push, n, blockSize) ==
  IF n + 1 > blockSize THEN -1 ELSE blockSize

\* the merge loop of push: the free size found from pPush on, or -1 where
\* the loop returns FIFO_FULL
RECURSIVE MergeFree(_, _, _, _)
MergeFree(buf, push, n, blockSize) ==
  IF n + 1 > blockSize
    THEN LET pBlock == WrapPtr(push + blockSize) IN
         IF pBlock = push THEN -1
         ELSE LET blockHeader == EE_READ(buf, pBlock) IN
              IF StatusOf(blockHeader) # FREE_BLOCK THEN -1
              ELSE MergeFree(buf, push, n, blockSize + SpanOf(blockHeader))
    ELSE blockSize

\* the status of push, were case #2 to go on without a look at the next
\* block
PushStatus_NoCase2(buf, push, n) ==
  LET blockHeader == EE_READ(buf, push) IN
  IF StatusOf(blockHeader) # FREE_BLOCK THEN PUSH_BLOCK_NOT_FREE
  ELSE LET blockSize == MergeFree(buf, push, n, SpanOf(blockHeader)) IN
       IF blockSize = -1 THEN FIFO_FULL ELSE SUCCESS

\* the status push returns for a dataSize of n
PushStatus(buf, push, n) ==
  LET blockHeader == EE_READ(buf, push) IN
  IF StatusOf(blockHeader) # FREE_BLOCK THEN PUSH_BLOCK_NOT_FREE
  ELSE LET blockSize == MergeFree(buf, push, n, SpanOf(blockHeader)) IN
       IF blockSize = -1 THEN FIFO_FULL
       ELSE IF n + 1 < blockSize THEN SUCCESS
       ELSE LET pBlock == WrapPtr(push + blockSize) IN
            IF pBlock = push THEN FIFO_FULL
            ELSE IF StatusOf(EE_READ(buf, pBlock)) # FREE_BLOCK
              THEN FIFO_FULL
              ELSE SUCCESS

\* case #1, were the new free block given the whole residual space as data
\* size
ResidualWrite_OneMore(buf, push, n) ==
  LET blockSize == MergeFree(buf, push, n, SpanOf(EE_READ(buf, push))) IN
  IF n + 1 < blockSize
    THEN << <<WrapPtr(push + n + 1), FreeHeader(blockSize - n - 1)>> >>
    ELSE <<>>

\* case #1 of push: the header of the new free block filling the residual
\* space
ResidualWrite(buf, push, n) ==
  LET blockSize == MergeFree(buf, push, n, SpanOf(EE_READ(buf, push))) IN
  IF n + 1 < blockSize
    THEN << <<WrapPtr(push + n + 1), FreeHeader(blockSize - n - 2)>> >>
    ELSE <<>>

\* the block is splitted: it wraps at ring buffer end back to start
PushSplitted(push, n) == push + n + 1 > pRBufEnd

\* the copy, were its second part to start one byte after the ring buffer
\* start
PushDataAddr_SecondShifted(push, n, i) ==
  IF push + i < pRBufEnd THEN push + i ELSE push + i - rBufSize + 1

\* the address data byte i (1..n) is copied to
PushDataAddr(push, n, i) ==
  IF push + i < pRBufEnd THEN push + i ELSE push + i - rBufSize

\* the copy of the data to the block, first byte first
DataWrites(push, d) ==
  [i \in 1..Len(d) |-> <<PushDataAddr(push, Len(d), i), d[i]>>]

\* pData after the copy loops, were the second loop to stop on the last byte
\* it wrote
PushDataEnd_OnLastByte(push, n) ==
  IF PushSplitted(push, n) THEN push + n - rBufSize ELSE push + n + 1

\* pData after the copy loops
PushDataEnd(push, n) ==
  IF PushSplitted(push, n) THEN push + n + 1 - rBufSize ELSE push + n + 1

\* a splitted block, were the offset of the bottom block left as it is
SplitBotWrite_None(push, n) == <<>>

\* the update of the offset of the bottom block after the copy of a
\* splitted block
SplitBotWrite(push, n) ==
  IF PushSplitted(push, n)
    THEN << <<pBotBlockOffset, PushDataEnd(push, n) - pRBufStart>> >>
    ELSE <<>>

\* a block that ends at the ring buffer end, were the offset of the bottom
\* block left as it is
EndBotWrite_None(push, n) == <<>>

\* push, were it to clear the offset of the bottom block wherever pPush
\* moves to
EndBotWrite_Always(push, n) == << <<pBotBlockOffset, 0>> >>

\* the update of the offset of the bottom block where the block ends at the
\* ring buffer end
EndBotWrite(push, n) ==
  IF PushDataEnd(push, n) < pRBufEnd THEN <<>>
  ELSE << <<pBotBlockOffset, 0>> >>

\* push, were it to set size and status of the block before it copies the
\* data
PushWrites_HeaderFirst(buf, push, d) ==
  ResidualWrite(buf, push, Len(d))
  \o << <<push, UsedHeader(Len(d))>> >>
  \o DataWrites(push, d)
  \o SplitBotWrite(push, Len(d))
  \o EndBotWrite(push, Len(d))

\* all the writes of a successful push of d, in order
PushWrites(buf, push, d) ==
  ResidualWrite(buf, push, Len(d))
  \o DataWrites(push, d)
  \o SplitBotWrite(push, Len(d))
  \o << <<push, UsedHeader(Len(d))>> >>
  \o EndBotWrite(push, Len(d))

\* push, were it to leave pPush on the block it has just written
PushNext_Stay(push, n) == push

\* pPush after a successful push of n bytes
PushNext(push, n) ==
  LET pData == PushDataEnd(push, n) IN
  IF pData < pRBufEnd THEN pData ELSE pRBufStart

\* ------------------------------------------------------------------------
\* readData, pop, read
\* ------------------------------------------------------------------------
\* the copy out, were its second part to start one byte after the ring
\* buffer start
ReadDataAddr_SecondShifted(pBlock, i) ==
  IF pBlock + i < pRBufEnd THEN pBlock + i ELSE pBlock + i - rBufSize + 1

\* the address byte i (1..blockSize-1) of the block at pBlock is read from
ReadDataAddr(pBlock, i) ==
  IF pBlock + i < pRBufEnd THEN pBlock + i ELSE pBlock + i - rBufSize

\* readData, were it to tell the caller the size it needs where the data
\* buffer is too small
readData_ReportSize(buf, pBlock, bufSize) ==
  LET blockSize == SpanOf(EE_READ(buf, pBlock)) IN
  IF blockSize - 1 > bufSize
    THEN [rc |-> DATA_BUFFER_SMALL, data |-> <<>>, size |-> blockSize - 1,
          pBlock |-> pBlock, blockSize |-> blockSize]
    ELSE
      LET pData == IF pBlock + blockSize > pRBufEnd
                     THEN pBlock + blockSize - rBufSize
                     ELSE pBlock + blockSize
      IN
      [rc |-> SUCCESS,
       data |-> [i \in 1..(blockSize - 1) |->
                   EE_READ(buf, ReadDataAddr(pBlock, i))],
       size |-> blockSize - 1,
       pBlock |-> IF pData < pRBufEnd THEN pData ELSE pRBufStart,
       blockSize |-> blockSize]

\* readData: status, data copied, *size and pBlock on return, bufSize being
\* *size at the call
readData(buf, pBlock, bufSize) ==
  LET blockSize == SpanOf(EE_READ(buf, pBlock)) IN
  IF blockSize - 1 > bufSize
    THEN [rc |-> DATA_BUFFER_SMALL, data |-> <<>>, size |-> bufSize,
          pBlock |-> pBlock, blockSize |-> blockSize]
    ELSE
      LET pData == IF pBlock + blockSize > pRBufEnd
                     THEN pBlock + blockSize - rBufSize
                     ELSE pBlock + blockSize
      IN
      [rc |-> SUCCESS,
       data |-> [i \in 1..(blockSize - 1) |->
                   EE_READ(buf, ReadDataAddr(pBlock, i))],
       size |-> blockSize - 1,
       pBlock |-> IF pData < pRBufEnd THEN pData ELSE pRBufStart,
       blockSize |-> blockSize]

\* ------------------------------------------------------------------------
\* a call taken as one step, from its entry to its return
\* ------------------------------------------------------------------------
\* no call is in progress
Idle ==
  [pc |-> "idle", pBotBlock |-> 0, pBlock |-> 0, blockHeader |-> 0,
   blockSize |-> 0, oldStatus |-> 0, detectedRBufSize |-> 0,
   sizeToFill |-> 0, pData |-> 0, part |-> 0, size |-> 0, data |-> <<>>,
   delays |-> 0]

\* a method that has nothing to do with EEPROM.begin()
WholeCall == UNCHANGED <<eepromBegin, loop>>

\* format or begin: EEPROM.begin(), where it was still to be called, has
\* been called and has returned true
WholeCallBegun ==
  /\ eepromBegin' = FALSE
  /\ UNCHANGED loop

\* ------------------------------------------------------------------------
\* commit of the RAM cache to flash (ESP8266, ESP32)
\* ------------------------------------------------------------------------
\* a method that calls neither EEPROM.commit() nor commitRequest()
CommitNone ==
  /\ committed' = FALSE
  /\ UNCHANGED <<esp, commitPeriod, nextCommit, millis, flash, lastCommit,
                 flushed>>

\* EEPROM.commit(); nextCommit = now + commitPeriod; cache being the FIFO
\* buffer bytes at the call. The clock stays far below the 2^32 ms where
\* the sum would wrap.
Commit(cache) ==
  /\ committed' = TRUE
  /\ flash' = cache
  /\ nextCommit' = millis + commitPeriod
  /\ lastCommit' = millis
  /\ flushed' = pushed'
  /\ UNCHANGED <<esp, commitPeriod, millis>>

\* the end of format
FormatCommit(cache) == IF esp THEN Commit(cache) ELSE CommitNone

\* commitRequest(): commit not more frequently than the given period
commitRequest(cache) ==
  IF ~esp THEN CommitNone
  ELSE IF commitPeriod = 0 THEN CommitNone
  ELSE IF millis < nextCommit THEN CommitNone
  ELSE Commit(cache)

\* a build with no commit: AVR, or FIFOEE_RAM
NoDeferredCommit ==
  /\ esp = FALSE
  /\ commitPeriod = 0
  /\ nextCommit = 0
  /\ millis = 0
  /\ flash = <<>>
  /\ committed = FALSE
  /\ lastCommit = 0
  /\ flushed = <<>>
  /\ eepromBegin = FALSE
  /\ loop = Idle

\* ------------------------------------------------------------------------
\* the methods as actions
\* ------------------------------------------------------------------------
\* addresses of the ring buffer
RingAddrs == pRBufStart..(pRBufEnd - 1)

\* the dataSize values given to push: every size that can fit, and the two
\* smallest ones that cannot
PushSizes == 0..rBufSize

\* FIFOEE(aBuffer, aBufSize) over an erased EEPROM, then format(), as the
\* setup() of the examples does
Init ==
  \E aBufSize \in BufSizes :
    /\ rBufSize = aBufSize - 1
    /\ buffer = ApplyWrites(ErasedBuffer(aBufSize), FormatWrites)
    /\ pPush = pRBufStart
    /\ pPop = pRBufStart
    /\ pRead = pRBufStart
    /\ op = "format"
    /\ rc \in UndefinedInt
    /\ data = <<>>
    /\ size = 0
    /\ ready = TRUE
    /\ pushed = <<>>
    /\ nread = 0
    /\ NoDeferredCommit

Format ==
  /\ op' = "format"
  /\ data' = <<>>
  /\ size' = 0
  /\ IF rBufSize < BUFFER_SIZE_MIN - 1
       THEN /\ rc' = INVALID_FIFO_BUFFER_SIZE
            /\ ready' = FALSE
            /\ UNCHANGED <<buffer, rBufSize, pPush, pPop, pRead, pushed,
                           nread>>
       ELSE /\ buffer' = ApplyWrites(buffer, FormatWrites)
            /\ pPush' = pRBufStart
            /\ pPop' = pRBufStart
            /\ pRead' = pRBufStart
            /\ rc' \in UndefinedInt
            /\ ready' = TRUE
            /\ pushed' = <<>>
            /\ nread' = 0
            /\ UNCHANGED rBufSize
  /\ IF rBufSize < BUFFER_SIZE_MIN - 1 THEN CommitNone
     ELSE FormatCommit(buffer')
  /\ WholeCallBegun

\* begin() on the running instance, were it to clear the offset of the
\* bottom block as format does
Begin_Writing ==
  LET r == begin(buffer, [rc |-> rc, pPush |-> pPush, pPop |-> pPop,
                          pRead |-> pRead])
  IN
  /\ op' = "begin"
  /\ rc' = r.rc
  /\ pPush' = r.pPush
  /\ pPop' = r.pPop
  /\ pRead' = r.pRead
  /\ ready' = (r.rc = SUCCESS)
  /\ data' = <<>>
  /\ size' = 0
  /\ buffer' = EE_WRITE(buffer, pBotBlockOffset, 0)
  /\ nread' = 0
  /\ UNCHANGED <<rBufSize, pushed>>
  /\ CommitNone
  /\ WholeCallBegun

\* begin() on the running instance
Begin ==
  LET r == begin(buffer, [rc |-> rc, pPush |-> pPush, pPop |-> pPop,
                          pRead |-> pRead])
  IN
  /\ op' = "begin"
  /\ rc' = r.rc
  /\ pPush' = r.pPush
  /\ pPop' = r.pPop
  /\ pRead' = r.pRead
  /\ ready' = (r.rc = SUCCESS)
  /\ data' = <<>>
  /\ size' = 0
  /\ nread' = 0
  /\ UNCHANGED <<buffer, rBufSize, pushed>>
  /\ CommitNone
  /\ WholeCallBegun

\* begin returns before it sets any pointer
BeginKeepsPointers(buf) ==
  EE_READ(buf, pRBufStart + EE_READ(buf, pBotBlockOffset)) = 0

\* the values the pointers of a new instance may hold before begin sets
\* them: any address, of which the first and the last of the ring buffer
\* are tried, and which shows only where begin leaves them as they are
Uninitialized(buf) ==
  IF BeginKeepsPointers(buf) THEN {pRBufStart, pRBufEnd - 1}
  ELSE {pRBufStart}

\* power down, power up: a new instance over the same EEPROM, whose
\* pointers hold no defined value, then begin()
PowerCycle ==
  \E g1 \in Uninitialized(buffer), g2 \in Uninitialized(buffer),
     g3 \in Uninitialized(buffer) :
    LET r == begin(buffer, [rc |-> rc, pPush |-> g1, pPop |-> g2,
                            pRead |-> g3])
    IN
    /\ op' = "powercycle"
    /\ rc' = r.rc
    /\ pPush' = r.pPush
    /\ pPop' = r.pPop
    /\ pRead' = r.pRead
    /\ ready' = (r.rc = SUCCESS)
    /\ data' = <<>>
    /\ size' = 0
    /\ nread' = 0
    /\ UNCHANGED <<buffer, rBufSize, pushed>>
    /\ CommitNone
    /\ WholeCallBegun

\* push, were case #2 to look at the next block only after the copy of the
\* data
Push_CopyBeforeCheck(n) ==
  /\ ready
  /\ op' = "push"
  /\ data' = <<>>
  /\ size' = 0
  /\ rc' = PushStatus(buffer, pPush, n)
  /\ IF PushStatus(buffer, pPush, n) # SUCCESS
       THEN /\ \E d \in [1..n -> DataBytes] :
                 buffer' =
                   IF /\ IsFreeHeader(EE_READ(buffer, pPush))
                      /\ MergeFree(buffer, pPush, n,
                                   SpanOf(EE_READ(buffer, pPush))) # -1
                     THEN ApplyWrites(buffer, DataWrites(pPush, d))
                     ELSE buffer
            /\ UNCHANGED <<rBufSize, pPush, pPop, pRead, ready, pushed, nread>>
       ELSE \E d \in [1..n -> DataBytes] :
              /\ buffer' = ApplyWrites(buffer, PushWrites(buffer, pPush, d))
              /\ pPush' = PushNext(pPush, n)
              /\ pushed' = Append(pushed, d)
              /\ UNCHANGED <<rBufSize, pPop, pRead, ready, nread>>
  /\ IF PushStatus(buffer, pPush, n) # SUCCESS THEN CommitNone
     ELSE commitRequest(buffer')
  /\ WholeCall

\* push(d, Len(d))
PushRecord(d) ==
  /\ ready
  /\ op' = "push"
  /\ data' = <<>>
  /\ size' = 0
  /\ rc' = PushStatus(buffer, pPush, Len(d))
  /\ IF PushStatus(buffer, pPush, Len(d)) # SUCCESS
       THEN UNCHANGED <<buffer, rBufSize, pPush, pPop, pRead, ready, pushed,
                        nread>>
       ELSE /\ buffer' = ApplyWrites(buffer, PushWrites(buffer, pPush, d))
            /\ pPush' = PushNext(pPush, Len(d))
            /\ pushed' = Append(pushed, d)
            /\ UNCHANGED <<rBufSize, pPop, pRead, ready, nread>>
  /\ IF PushStatus(buffer, pPush, Len(d)) # SUCCESS THEN CommitNone
     ELSE commitRequest(buffer')
  /\ WholeCall

\* push of n bytes, whatever bytes
Push(n) == \E d \in [1..n -> DataBytes] : PushRecord(d)

\* pop, were it to leave the read pointer on the popped block
PopReadNext_Stay(read, pop, pBlock) == read

\* pop, were it to set the read pointer to the new queue head every time
PopReadNext_Always(read, pop, pBlock) == pBlock

\* pop: the read pointer must be always at or before the pop pointer
PopReadNext(read, pop, pBlock) == IF read = pop THEN pBlock ELSE read

\* pop, were it to erase the data of the block it frees
PopWrites_EraseData(pop, blockSize) ==
  << <<pop, FreeHeader(blockSize - 1)>> >>
  \o [i \in 1..(blockSize - 1) |-> <<ReadDataAddr(pop, i), 255>>]

\* all the writes of a successful pop: mark block just read as deleted
PopWrites(pop, blockSize) == << <<pop, FreeHeader(blockSize - 1)>> >>

Pop(bufSize) ==
  /\ ready
  /\ op' = "pop"
  /\ IF pPop = pPush
       THEN /\ rc' = FIFO_EMPTY
            /\ data' = <<>>
            /\ size' = bufSize
            /\ UNCHANGED <<buffer, rBufSize, pPush, pPop, pRead, ready, pushed,
                           nread>>
       ELSE LET r == readData(buffer, pPop, bufSize) IN
            /\ rc' = r.rc
            /\ data' = r.data
            /\ size' = r.size
            /\ IF r.rc # SUCCESS
                 THEN UNCHANGED <<buffer, rBufSize, pPush, pPop, pRead, ready,
                                  pushed, nread>>
                 ELSE /\ buffer' = ApplyWrites(buffer,
                                      PopWrites(pPop, r.blockSize))
                      /\ pRead' = PopReadNext(pRead, pPop, r.pBlock)
                      /\ pPop' = r.pBlock
                      /\ pushed' = IF pushed = <<>> THEN <<>> ELSE Tail(pushed)
                      /\ nread' = IF nread > 0 THEN nread - 1 ELSE 0
                      /\ UNCHANGED <<rBufSize, pPush, ready>>
  /\ IF pPop = pPush \/ readData(buffer, pPop, bufSize).rc # SUCCESS
       THEN CommitNone
       ELSE commitRequest(buffer')
  /\ WholeCall

\* the test of read, were it the one of pop
ReadEmpty_AsPop(read, pop, push) == pop = push

\* read: if ring buffer is empty
ReadEmpty(read, pop, push) == read = push

\* read, were it to mark the block read in its header, the way the variant
\* of the library with a READ block status does
Read_Marking(bufSize) ==
  /\ ready
  /\ op' = "read"
  /\ IF ReadEmpty(pRead, pPop, pPush)
       THEN /\ rc' = FIFO_EMPTY
            /\ data' = <<>>
            /\ size' = bufSize
            /\ UNCHANGED <<buffer, rBufSize, pPush, pPop, pRead, ready, pushed,
                           nread>>
       ELSE LET r == readData(buffer, pRead, bufSize) IN
            /\ rc' = r.rc
            /\ data' = r.data
            /\ size' = r.size
            /\ pRead' = IF r.rc # SUCCESS THEN pRead ELSE r.pBlock
            /\ nread' = IF r.rc # SUCCESS THEN nread ELSE nread + 1
            /\ buffer' = IF r.rc # SUCCESS THEN buffer
                         ELSE EE_WRITE(buffer, pRead, 64 + r.blockSize - 1)
            /\ UNCHANGED <<rBufSize, pPush, pPop, ready, pushed>>
  /\ CommitNone
  /\ WholeCall

Read(bufSize) ==
  /\ ready
  /\ op' = "read"
  /\ IF ReadEmpty(pRead, pPop, pPush)
       THEN /\ rc' = FIFO_EMPTY
            /\ data' = <<>>
            /\ size' = bufSize
            /\ UNCHANGED <<buffer, rBufSize, pPush, pPop, pRead, ready, pushed,
                           nread>>
       ELSE LET r == readData(buffer, pRead, bufSize) IN
            /\ rc' = r.rc
            /\ data' = r.data
            /\ size' = r.size
            /\ pRead' = IF r.rc # SUCCESS THEN pRead ELSE r.pBlock
            /\ nread' = IF r.rc # SUCCESS THEN nread ELSE nread + 1
            /\ UNCHANGED <<buffer, rBufSize, pPush, pPop, ready, pushed>>
  /\ CommitNone
  /\ WholeCall

RestartRead ==
  /\ ready
  /\ op' = "restartRead"
  /\ rc' = SUCCESS
  /\ data' = <<>>
  /\ size' = 0
  /\ pRead' = pPop
  /\ nread' = 0
  /\ UNCHANGED <<buffer, rBufSize, pPush, pPop, ready, pushed>>
  /\ CommitNone
  /\ WholeCall

PushAny == \E n \in PushSizes : Push(n)

PopAny == \E bufSize \in DataBufSizes : Pop(bufSize)

ReadAny == \E bufSize \in DataBufSizes : Read(bufSize)

Next ==
  \/ Format
  \/ Begin
  \/ PowerCycle
  \/ PushAny
  \/ PopAny
  \/ ReadAny
  \/ RestartRead

Spec == Init /\ [][Next]_vars

\* the same with no push of an empty record
PushSome == \E n \in PushSizes \ {0} : Push(n)

NextSome ==
  \/ Format
  \/ Begin
  \/ PowerCycle
  \/ PushSome
  \/ PopAny
  \/ ReadAny
  \/ RestartRead

SpecSome == Init /\ [][NextSome]_vars

\* ------------------------------------------------------------------------
\* one method called on an instance whose FIFO buffer holds any content and
\* whose pointers were set by neither format nor begin
\* ------------------------------------------------------------------------
\* the bytes found in the ring buffer: the invalid header, used and free
\* headers of 2 and 3 bytes
RawBytes == {0, 1, 129, 130}

InitRaw ==
  /\ rBufSize = BUFFER_SIZE_MIN - 1
  /\ buffer \in [aBuffer..(aBuffer + BUFFER_SIZE_MIN - 1) -> RawBytes \cup 0..3]
  /\ buffer[pBotBlockOffset] \in 0..(BUFFER_SIZE_MIN - 2)
  /\ \A addr \in (pRBufStart)..(aBuffer + BUFFER_SIZE_MIN - 1) :
       buffer[addr] \in RawBytes
  /\ pPush \in pRBufStart..(pRBufStart + BUFFER_SIZE_MIN - 2)
  /\ pPop \in pRBufStart..(pRBufStart + BUFFER_SIZE_MIN - 2)
  /\ pRead \in {pPop, pPush}
  /\ op = "none"
  /\ rc = SUCCESS
  /\ data = <<>>
  /\ size = 0
  /\ ready = TRUE
  /\ pushed = <<>>
  /\ nread = 0
  /\ NoDeferredCommit

NextRaw ==
  \/ (op = "none" /\ Format)
  \/ (op = "none" /\ Begin)
  \/ (op = "none" /\ PushAny)
  \/ (op = "none" /\ PopAny)
  \/ (op = "none" /\ ReadAny)
  \/ (op = "none" /\ RestartRead)

SpecRaw == InitRaw /\ [][NextRaw]_vars

\* ------------------------------------------------------------------------
\* a FIFO buffer that holds a record of FIFOEE_DATA_SIZE_MAX bytes
\* ------------------------------------------------------------------------
\* FIFO buffer size: format writes two free blocks
LargeBufSize == 131

\* the dataSize values pushed: the two largest ones
LargeSizes == {FIFOEE_DATA_SIZE_MAX - 1, FIFOEE_DATA_SIZE_MAX}

\* the data pushed: n bytes counting up from first
CountUp(first, n) == [i \in 1..n |-> (first + i - 1) % 256]

InitLarge ==
  /\ rBufSize = LargeBufSize - 1
  /\ buffer = ApplyWrites(ErasedBuffer(LargeBufSize), FormatWrites)
  /\ pPush = pRBufStart
  /\ pPop = pRBufStart
  /\ pRead = pRBufStart
  /\ op = "format"
  /\ rc \in UndefinedInt
  /\ data = <<>>
  /\ size = 0
  /\ ready = TRUE
  /\ pushed = <<>>
  /\ nread = 0
  /\ NoDeferredCommit

PushLarge ==
  \E n \in LargeSizes, first \in DataBytes : PushRecord(CountUp(first, n))

PopLarge == Pop(FIFOEE_DATA_SIZE_MAX)

NextLarge ==
  \/ PushLarge
  \/ PopLarge

SpecLarge == InitLarge /\ [][NextLarge]_vars

\* ------------------------------------------------------------------------
\* format, begin, pop on a new instance, the FIFO buffer being of any size
\* up to some blocks of BLOCK_SIZE_MAX bytes
\* ------------------------------------------------------------------------
\* how many free blocks of BLOCK_SIZE_MAX bytes format may have to write
MaxFullBlocks == 2

\* the FIFO buffer sizes given to the constructor
FormatBufSizes ==
  BUFFER_SIZE_MIN..(MaxFullBlocks * BLOCK_SIZE_MAX + BUFFER_SIZE_MIN)

\* what every cell of the EEPROM holds before format: the invalid header,
\* a used header or the erased value
FillBytes == {0, 1, 255}

InitFormat ==
  \E aBufSize \in FormatBufSizes, fill \in FillBytes :
    /\ rBufSize = aBufSize - 1
    /\ buffer = [addr \in aBuffer..(aBuffer + aBufSize - 1) |-> fill]
    /\ pPush \in {pRBufStart, pRBufEnd - 1}
    /\ pPop = pPush
    /\ pRead = pPush
    /\ op = "none"
    /\ rc = SUCCESS
    /\ data = <<>>
    /\ size = 0
    /\ ready = FALSE
    /\ pushed = <<>>
    /\ nread = 0
    /\ NoDeferredCommit

NextFormat ==
  \/ (op = "none" /\ Format)
  \/ (op = "format" /\ Begin)
  \/ (op = "begin" /\ PopAny)

SpecFormat == InitFormat /\ [][NextFormat]_vars

\* ------------------------------------------------------------------------
\* begin, then pop, on a new instance whose FIFO buffer holds any headers
\* ------------------------------------------------------------------------
\* FIFO buffer size: room for two used blocks of one byte and two free
\* blocks
ScanBufSize == 7

\* the bytes found in the ring buffer: the invalid header, a used header of
\* 2 bytes, free headers of 1 and 2 bytes
ScanBytes == {0, 1, 128, 129}

InitScan ==
  /\ rBufSize = ScanBufSize - 1
  /\ buffer \in [aBuffer..(aBuffer + ScanBufSize - 1)
                  -> ScanBytes \cup 0..(ScanBufSize - 2)]
  /\ buffer[pBotBlockOffset] \in 0..(ScanBufSize - 2)
  /\ \A addr \in pRBufStart..(aBuffer + ScanBufSize - 1) :
       buffer[addr] \in ScanBytes
  /\ pPush = pRBufStart
  /\ pPop = pRBufStart
  /\ pRead = pRBufStart
  /\ op = "none"
  /\ rc = SUCCESS
  /\ data = <<>>
  /\ size = 0
  /\ ready = FALSE
  /\ pushed = <<>>
  /\ nread = 0
  /\ NoDeferredCommit

NextScan ==
  \/ (op = "none" /\ Begin)
  \/ (op = "begin" /\ PopAny)

SpecScan == InitScan /\ [][NextScan]_vars

\* ------------------------------------------------------------------------
\* power lost within a push
\* ------------------------------------------------------------------------
\* the payload bytes of the push that is cut: 0x01 reads as the header of a
\* used block of 2 bytes, 0x81 as the header of a free block of 2 bytes
TornBytes == {1, 129}

\* push(d, Len(d)) stops after the first k of its EE_WRITEs, each written
\* whole; then power up: a new instance over the same EEPROM, and begin().
\* data keeps the record that was being pushed, pushed the records queued
\* before the push.
TornPush ==
  /\ ready
  /\ \E n \in PushSizes \ {0} :
       \E d \in [1..n -> TornBytes] :
         /\ PushStatus(buffer, pPush, n) = SUCCESS
         /\ \E k \in 1..(Len(PushWrites(buffer, pPush, d)) - 1) :
              LET torn == ApplyWrites(buffer,
                            SubSeq(PushWrites(buffer, pPush, d), 1, k))
                  r == begin(torn, [rc |-> rc, pPush |-> pRBufStart,
                                    pPop |-> pRBufStart,
                                    pRead |-> pRBufStart])
              IN
              /\ buffer' = torn
              /\ op' = "torn"
              /\ rc' = r.rc
              /\ pPush' = r.pPush
              /\ pPop' = r.pPop
              /\ pRead' = r.pRead
              /\ data' = d
              /\ size' = k
              /\ ready' = FALSE
              /\ nread' = 0
              /\ UNCHANGED <<rBufSize, pushed>>
  /\ CommitNone
  /\ WholeCallBegun

NextTorn ==
  \/ Format
  \/ PushSome
  \/ PopAny
  \/ TornPush

SpecTorn == Init /\ [][NextTorn]_vars

\* ------------------------------------------------------------------------
\* the ESP8266/ESP32 build: format, push and pop over the RAM cache, the
\* clock going on between the calls
\* ------------------------------------------------------------------------
\* largest commitPeriod (ms) given to the constructor
MaxCommitPeriod == 2

\* the time (ms) the clock reaches
MaxMillis == 4

\* the commitPeriod values given to the constructor; 0 disables committing
CommitPeriods == {0, MaxCommitPeriod}

\* FIFOEE(aBuffer, aBufSize, aCommitPeriod) at power up, then format()
InitCommit ==
  \E aCommitPeriod \in CommitPeriods :
    /\ rBufSize = BUFFER_SIZE_MIN - 1
    /\ buffer = ApplyWrites(ErasedBuffer(BUFFER_SIZE_MIN), FormatWrites)
    /\ pPush = pRBufStart
    /\ pPop = pRBufStart
    /\ pRead = pRBufStart
    /\ op = "format"
    /\ rc \in UndefinedInt
    /\ data = <<>>
    /\ size = 0
    /\ ready = TRUE
    /\ pushed = <<>>
    /\ nread = 0
    /\ esp = TRUE
    /\ commitPeriod = aCommitPeriod
    /\ millis = 0
    /\ nextCommit = millis + commitPeriod
    /\ flash = buffer
    /\ committed = TRUE
    /\ lastCommit = millis
    /\ flushed = <<>>
    /\ eepromBegin = FALSE
    /\ loop = Idle

\* time goes by between two calls
Tick ==
  /\ millis < MaxMillis
  /\ millis' = millis + 1
  /\ op' = "tick"
  /\ committed' = FALSE
  /\ UNCHANGED <<buffer, rBufSize, pPush, pPop, pRead, rc, data, size, ready,
                 pushed, nread, esp, commitPeriod, nextCommit, flash,
                 lastCommit, flushed, eepromBegin, loop>>

\* push of a record of any size that can fit, its bytes counting up
PushCounting ==
  \E n \in PushSizes \ {0} : PushRecord(CountUp(FREE_BLOCK + 1, n))

NextCommit ==
  \/ Format
  \/ PushCounting
  \/ PopAny
  \/ Tick

SpecCommit == InitCommit /\ [][NextCommit]_vars

\* ------------------------------------------------------------------------
\* the calls of Spec, every record pushed holding bytes that count up, as
\* the records of the test sketch do
\* ------------------------------------------------------------------------
\* push of a record of any size from 0 on, its bytes counting up
PushCountingAny ==
  \E n \in PushSizes : PushRecord(CountUp(FREE_BLOCK + 1, n))

NextCount ==
  \/ Format
  \/ Begin
  \/ PowerCycle
  \/ PushCountingAny
  \/ PopAny
  \/ ReadAny
  \/ RestartRead

SpecCount == Init /\ [][NextCount]_vars

\* ------------------------------------------------------------------------
\* the ESP build with power lost between two calls
\* ------------------------------------------------------------------------
\* power lost, power up: the RAM cache is gone and EEPROM.begin() loads it
\* from flash; a new instance, whose pointers hold no defined value, is
\* constructed with the same commit period, then begin(). The clock of the
\* model goes on where millis() starts again from 0: nextCommit is as far
\* from it as it is from millis().
Crash ==
  \E g1 \in Uninitialized(flash), g2 \in Uninitialized(flash),
     g3 \in Uninitialized(flash) :
    LET r == begin(flash, [rc |-> rc, pPush |-> g1, pPop |-> g2,
                           pRead |-> g3])
    IN
    /\ esp
    /\ op' = "crash"
    /\ buffer' = flash
    /\ rc' = r.rc
    /\ pPush' = r.pPush
    /\ pPop' = r.pPop
    /\ pRead' = r.pRead
    /\ ready' = (r.rc = SUCCESS)
    /\ data' = <<>>
    /\ size' = 0
    /\ nread' = 0
    /\ pushed' = flushed
    /\ nextCommit' = millis + commitPeriod
    /\ committed' = FALSE
    /\ UNCHANGED <<rBufSize, esp, commitPeriod, millis, flash, lastCommit,
                   flushed>>
    /\ WholeCallBegun

\* the calls made and the time gone by, after the format() of setup(),
\* before power is lost
BeforeCrash ==
  /\ op # "crash"
  /\ \/ PushCountingAny
     \/ PopAny
     \/ Tick

\* power is lost once
NextCrash ==
  \/ BeforeCrash
  \/ Crash

SpecCrash == InitCommit /\ [][NextCrash]_vars

\* ------------------------------------------------------------------------
\* one call of format, begin, push, pop or read taken one loop iteration at
\* a time, on a new instance whose FIFO buffer holds any content and whose
\* pointers stand anywhere in the ring buffer
\* ------------------------------------------------------------------------
\* how many times the delay(1000) of a failed EEPROM.begin() is followed
MaxDelays == 2

\* the dataSize values given to push
LoopPushSizes == 0..(BUFFER_SIZE_MIN - 1)

\* the sizes of the larger FIFO buffers: some full blocks and a few bytes
LoopBufSizes ==
  {n * BLOCK_SIZE_MAX + k : n \in 1..MaxFullBlocks, k \in 0..2}

\* what EEPROM.begin() returns where format or begin has to call it: true,
\* or, in the ESP32 build, false as well
EepromBeginResults == IF esp /\ eepromBegin THEN {TRUE, FALSE} ELSE {TRUE}

\* FIFOEE(aBuffer, aBufSize) or FIFOEE(aBuffer, aBufSize, aCommitPeriod) at
\* power up: over a FIFO buffer of BUFFER_SIZE_MIN bytes that holds any
\* headers, or over a larger one whose ring buffer holds the same header
\* all over
InitLoop ==
  /\ \/ /\ rBufSize = BUFFER_SIZE_MIN - 1
        /\ buffer \in [aBuffer..(aBuffer + BUFFER_SIZE_MIN - 1)
                        -> ScanBytes \cup 0..(BUFFER_SIZE_MIN - 2)]
        /\ buffer[pBotBlockOffset] \in 0..(BUFFER_SIZE_MIN - 2)
        /\ \A addr \in pRBufStart..(aBuffer + BUFFER_SIZE_MIN - 1) :
             buffer[addr] \in ScanBytes
        /\ pPush \in pRBufStart..(pRBufStart + BUFFER_SIZE_MIN - 2)
        /\ pPop \in pRBufStart..(pRBufStart + BUFFER_SIZE_MIN - 2)
     \/ \E aBufSize \in LoopBufSizes, fill \in ScanBytes :
          /\ rBufSize = aBufSize - 1
          /\ buffer = [addr \in aBuffer..(aBuffer + aBufSize - 1) |->
                         IF addr = pBotBlockOffset THEN 0 ELSE fill]
          /\ pPush \in {pRBufStart, pRBufEnd - 1}
          /\ pPop = pPush
  /\ pRead = pPop
  /\ op = "none"
  /\ rc = SUCCESS
  /\ data = <<>>
  /\ size = 0
  /\ ready = FALSE
  /\ pushed = <<>>
  /\ nread = 0
  /\ esp \in BOOLEAN
  /\ commitPeriod = IF esp THEN MaxCommitPeriod ELSE 0
  /\ millis = 0
  /\ nextCommit = millis + commitPeriod
  /\ flash = IF esp THEN buffer ELSE <<>>
  /\ committed = FALSE
  /\ lastCommit = 0
  /\ flushed = <<>>
  /\ eepromBegin = esp
  /\ loop = Idle

\* format() up to its loop
FormatCall ==
  /\ loop.pc = "idle"
  /\ op = "none"
  /\ op' = "format"
  /\ data' = <<>>
  /\ size' = 0
  /\ IF rBufSize < BUFFER_SIZE_MIN - 1
       THEN /\ rc' = INVALID_FIFO_BUFFER_SIZE
            /\ UNCHANGED <<buffer, pPush, pPop, pRead, eepromBegin, loop>>
       ELSE \E began \in EepromBeginResults :
              IF ~began
                THEN /\ loop' = [Idle EXCEPT !.pc = "halt"]
                     /\ UNCHANGED <<buffer, pPush, pPop, pRead, rc,
                                    eepromBegin>>
                ELSE /\ eepromBegin' = FALSE
                     /\ buffer' = EE_WRITE(buffer, pBotBlockOffset, 0)
                     /\ pPush' = pRBufStart
                     /\ pPop' = pRBufStart
                     /\ pRead' = pRBufStart
                     /\ loop' = [Idle EXCEPT !.pc = "format",
                                             !.sizeToFill = rBufSize,
                                             !.pBlock = pRBufStart]
                     /\ UNCHANGED rc
  /\ UNCHANGED <<rBufSize, ready, pushed, nread>>
  /\ CommitNone

\* one test of while (sizeToFill > BLOCK_SIZE_MAX) and what follows it: the
\* body, or the rest of format
FormatIter ==
  /\ loop.pc = "format"
  /\ IF loop.sizeToFill > BLOCK_SIZE_MAX
       THEN /\ buffer' = EE_WRITE(buffer, loop.pBlock,
                                  FreeHeader(FIFOEE_DATA_SIZE_MAX))
            /\ loop' = [loop EXCEPT !.pBlock = @ + BLOCK_SIZE_MAX,
                                    !.sizeToFill = @ - BLOCK_SIZE_MAX]
            /\ UNCHANGED <<rc, ready, pushed, nread>>
            /\ CommitNone
       ELSE /\ buffer' = EE_WRITE(buffer, loop.pBlock,
                                  FreeHeader(loop.sizeToFill - 1))
            /\ loop' = Idle
            /\ rc' \in UndefinedInt
            /\ ready' = TRUE
            /\ pushed' = <<>>
            /\ nread' = 0
            /\ FormatCommit(buffer')
  /\ UNCHANGED <<rBufSize, pPush, pPop, pRead, op, data, size, eepromBegin>>

\* begin() up to its loop
BeginCall ==
  /\ loop.pc = "idle"
  /\ op = "none"
  /\ op' = "begin"
  /\ data' = <<>>
  /\ size' = 0
  /\ \E began \in EepromBeginResults :
       IF ~began
         THEN /\ loop' = [Idle EXCEPT !.pc = "halt"]
              /\ UNCHANGED <<pPush, pPop, pRead, rc, eepromBegin>>
         ELSE LET pBotBlock == pRBufStart + EE_READ(buffer, pBotBlockOffset)
                  blockHeader == EE_READ(buffer, pBotBlock)
              IN
              /\ eepromBegin' = FALSE
              /\ IF blockHeader = 0
                   THEN /\ rc' = INVALID_BLOCK_HEADER
                        /\ loop' = Idle
                        /\ UNCHANGED <<pPush, pPop, pRead>>
                   ELSE /\ pPush' = pBotBlock
                        /\ pPop' = pBotBlock
                        /\ pRead' = pBotBlock
                        /\ loop' = [Idle EXCEPT
                                      !.pc = "begin",
                                      !.pBotBlock = pBotBlock,
                                      !.pBlock = pBotBlock,
                                      !.blockHeader = blockHeader,
                                      !.oldStatus = StatusOf(blockHeader),
                                      !.detectedRBufSize = SpanOf(blockHeader)]
                        /\ UNCHANGED rc
  /\ UNCHANGED <<buffer, rBufSize, ready, pushed, nread>>
  /\ CommitNone

\* one iteration of the while (1) of begin
BeginIter ==
  /\ loop.pc = "begin"
  /\ LET pBlock == loop.pBlock + SpanOf(loop.blockHeader) IN
     IF pBlock >= pRBufEnd
       THEN /\ rc' = IF loop.pBotBlock # pBlock - rBufSize
                       THEN UNCLOSED_BLOCK_LIST
                     ELSE IF rBufSize # loop.detectedRBufSize
                       THEN WRONG_RBUFFER_SIZE
                     ELSE SUCCESS
            /\ ready' = (rc' = SUCCESS)
            /\ loop' = Idle
            /\ UNCHANGED <<pPush, pPop, pRead>>
       ELSE LET blockHeader == EE_READ(buffer, pBlock) IN
            IF blockHeader = 0
              THEN /\ rc' = INVALID_BLOCK_HEADER
                   /\ loop' = Idle
                   /\ UNCHANGED <<pPush, pPop, pRead, ready>>
              ELSE LET blockStatus == StatusOf(blockHeader) IN
                   /\ loop' = [loop EXCEPT
                                 !.pBlock = pBlock,
                                 !.blockHeader = blockHeader,
                                 !.detectedRBufSize = @ + SpanOf(blockHeader),
                                 !.oldStatus = blockStatus]
                   /\ IF loop.oldStatus = blockStatus
                        THEN UNCHANGED <<pPush, pPop, pRead>>
                      ELSE IF loop.oldStatus = FREE_BLOCK
                        THEN /\ pPop' = pBlock
                             /\ pRead' = pBlock
                             /\ UNCHANGED pPush
                        ELSE /\ pPush' = pBlock
                             /\ UNCHANGED <<pPop, pRead>>
                   /\ UNCHANGED <<rc, ready>>
  /\ UNCHANGED <<buffer, rBufSize, op, data, size, pushed, nread, eepromBegin>>
  /\ CommitNone

\* push(d, Len(d)) up to its merge loop
PushCall(d) ==
  /\ loop.pc = "idle"
  /\ op = "none"
  /\ ~eepromBegin
  /\ op' = "push"
  /\ data' = <<>>
  /\ size' = 0
  /\ LET blockHeader == EE_READ(buffer, pPush) IN
     IF StatusOf(blockHeader) # FREE_BLOCK
       THEN /\ rc' = PUSH_BLOCK_NOT_FREE
            /\ loop' = Idle
       ELSE /\ loop' = [Idle EXCEPT !.pc = "merge",
                                    !.blockSize = SpanOf(blockHeader),
                                    !.size = Len(d),
                                    !.data = d]
            /\ UNCHANGED rc
  /\ UNCHANGED <<buffer, rBufSize, pPush, pPop, pRead, ready, pushed, nread,
                 eepromBegin>>
  /\ CommitNone

\* one test of while (size + 1 > blockSize) and what follows it: the body,
\* or the two cases after the loop
MergeIter ==
  /\ loop.pc = "merge"
  /\ LET pBlock == WrapPtr(pPush + loop.blockSize)
         blockHeader == EE_READ(buffer, pBlock)
         full == pBlock = pPush \/ StatusOf(blockHeader) # FREE_BLOCK
         copy == [loop EXCEPT !.pc = "copy", !.pData = pPush + 1, !.part = 1]
     IN
     IF loop.size + 1 > loop.blockSize
       THEN /\ IF full
                 THEN /\ rc' = FIFO_FULL
                      /\ loop' = Idle
                 ELSE /\ loop' = [loop EXCEPT
                                    !.blockSize = @ + SpanOf(blockHeader)]
                      /\ UNCHANGED rc
            /\ UNCHANGED buffer
     ELSE IF loop.size + 1 < loop.blockSize
       THEN /\ buffer' = EE_WRITE(buffer, WrapPtr(pPush + loop.size + 1),
                                  FreeHeader(loop.blockSize - loop.size - 2))
            /\ loop' = copy
            /\ UNCHANGED rc
       ELSE /\ IF full
                 THEN /\ rc' = FIFO_FULL
                      /\ loop' = Idle
                 ELSE /\ loop' = copy
                      /\ UNCHANGED rc
            /\ UNCHANGED buffer
  /\ UNCHANGED <<rBufSize, pPush, pPop, pRead, op, data, size, ready, pushed,
                 nread, eepromBegin>>
  /\ CommitNone

\* one test of a for loop that copies the data to the block and what
\* follows it: the body, the start of the second loop of a splitted block,
\* or the rest of push
CopyIter ==
  /\ loop.pc = "copy"
  /\ LET splitted == pPush + loop.size + 1 > pRBufEnd
         bound == IF ~splitted THEN pPush + loop.size + 1
                  ELSE IF loop.part = 1 THEN pRBufEnd
                  ELSE pPush + loop.size + 1 - rBufSize
     IN
     IF loop.pData < bound
       THEN /\ buffer' = EE_WRITE(buffer, loop.pData, Head(loop.data))
            /\ loop' = [loop EXCEPT !.pData = @ + 1, !.data = Tail(@)]
            /\ UNCHANGED <<pPush, rc, pushed>>
            /\ CommitNone
     ELSE IF splitted /\ loop.part = 1
       THEN /\ loop' = [loop EXCEPT !.pData = pRBufStart, !.part = 2]
            /\ UNCHANGED <<buffer, pPush, rc, pushed>>
            /\ CommitNone
       ELSE /\ buffer' =
                 ApplyWrites(buffer,
                   (IF splitted
                      THEN << <<pBotBlockOffset, loop.pData - pRBufStart>> >>
                      ELSE <<>>)
                   \o << <<pPush, UsedHeader(loop.size)>> >>
                   \o (IF loop.pData < pRBufEnd THEN <<>>
                       ELSE << <<pBotBlockOffset, 0>> >>))
            /\ pPush' = IF loop.pData < pRBufEnd THEN loop.pData
                        ELSE pRBufStart
            /\ rc' = SUCCESS
            /\ pushed' = Append(pushed, CountUp(FREE_BLOCK + 1, loop.size))
            /\ loop' = Idle
            /\ commitRequest(buffer')
  /\ UNCHANGED <<rBufSize, pPop, pRead, op, data, size, ready, nread,
                 eepromBegin>>

\* pop(data, &size), *size being bufSize, or read(data, &size), up to the
\* copy loops of readData
ReadDataCall(method, pFrom, bufSize) ==
  /\ loop.pc = "idle"
  /\ op = "none"
  /\ ~eepromBegin
  /\ op' = method
  /\ data' = <<>>
  /\ IF pFrom = pPush
       THEN /\ rc' = FIFO_EMPTY
            /\ size' = bufSize
            /\ loop' = Idle
       ELSE LET blockSize == SpanOf(EE_READ(buffer, pFrom)) IN
            IF blockSize - 1 > bufSize
              THEN /\ rc' = DATA_BUFFER_SMALL
                   /\ size' = bufSize
                   /\ loop' = Idle
              ELSE /\ size' = blockSize - 1
                   /\ loop' = [Idle EXCEPT !.pc = "read",
                                           !.pBlock = pFrom,
                                           !.blockSize = blockSize,
                                           !.pData = pFrom + 1,
                                           !.part = 1]
                   /\ UNCHANGED rc
  /\ UNCHANGED <<buffer, rBufSize, pPush, pPop, pRead, ready, pushed, nread,
                 eepromBegin>>
  /\ CommitNone

PopCall == \E bufSize \in DataBufSizes : ReadDataCall("pop", pPop, bufSize)

ReadCall == \E bufSize \in DataBufSizes : ReadDataCall("read", pRead, bufSize)

\* one test of a for loop of readData and what follows it: the body, the
\* start of the second loop of a splitted block, or the rest of readData and
\* of pop or read
ReadIter ==
  /\ loop.pc = "read"
  /\ LET splitted == loop.pBlock + loop.blockSize > pRBufEnd
         bound == IF ~splitted THEN loop.pBlock + loop.blockSize
                  ELSE IF loop.part = 1 THEN pRBufEnd
                  ELSE loop.pBlock + loop.blockSize - rBufSize
         pBlock == IF loop.pData < pRBufEnd THEN loop.pData ELSE pRBufStart
     IN
     IF loop.pData < bound
       THEN /\ data' = Append(data, EE_READ(buffer, loop.pData))
            /\ loop' = [loop EXCEPT !.pData = @ + 1]
            /\ UNCHANGED <<buffer, pPop, pRead, rc, pushed, nread>>
            /\ CommitNone
     ELSE IF splitted /\ loop.part = 1
       THEN /\ loop' = [loop EXCEPT !.pData = pRBufStart, !.part = 2]
            /\ UNCHANGED <<buffer, pPop, pRead, rc, data, pushed, nread>>
            /\ CommitNone
     ELSE IF op = "pop"
       THEN /\ buffer' = ApplyWrites(buffer, PopWrites(pPop, loop.blockSize))
            /\ pRead' = PopReadNext(pRead, pPop, pBlock)
            /\ pPop' = pBlock
            /\ rc' = SUCCESS
            /\ loop' = Idle
            /\ pushed' = IF pushed = <<>> THEN <<>> ELSE Tail(pushed)
            /\ nread' = IF nread > 0 THEN nread - 1 ELSE 0
            /\ UNCHANGED data
            /\ commitRequest(buffer')
       ELSE /\ pRead' = pBlock
            /\ rc' = SUCCESS
            /\ loop' = Idle
            /\ nread' = nread + 1
            /\ UNCHANGED <<buffer, pPop, data, pushed>>
            /\ CommitNone
  /\ UNCHANGED <<rBufSize, pPush, op, size, ready, eepromBegin>>

\* EEPROM.begin() has returned false: while (true) delay(1000);
EepromHalt ==
  /\ loop.pc = "halt"
  /\ loop.delays < MaxDelays
  /\ loop' = [loop EXCEPT !.delays = @ + 1]
  /\ millis' = millis + 1000
  /\ UNCHANGED <<buffer, rBufSize, pPush, pPop, pRead, op, rc, data, size,
                 ready, pushed, nread, esp, commitPeriod, nextCommit, flash,
                 committed, lastCommit, flushed, eepromBegin>>

PushCallAny == \E n \in LoopPushSizes : PushCall(CountUp(FREE_BLOCK + 1, n))

\* the code of a call in progress goes on
Running ==
  \/ FormatIter
  \/ BeginIter
  \/ MergeIter
  \/ CopyIter
  \/ ReadIter
  \/ EepromHalt

NextLoop ==
  \/ FormatCall
  \/ BeginCall
  \/ PushCallAny
  \/ PopCall
  \/ ReadCall
  \/ Running

\* a call in progress is not suspended: its next step is taken
SpecLoop == InitLoop /\ [][NextLoop]_vars /\ WF_vars(Running)

\* ------------------------------------------------------------------------
\* the library with a two bit block status: a block is free, new (pushed
\* and not yet read) or read, its header holds the data size - 1 in six
\* bits, and read writes the read status into the header
\* ------------------------------------------------------------------------
DATA_SIZE_MAX == 64
BLOCK_STATUS_BITS == 192
MARK_BLOCK_SIZE_BITS == 63
MARK_FREE_BLOCK == 192
NEW_BLOCK == 64
READ_BLOCK == 0

\* enum returnStatus, where it differs
MARK_DATA_BUFFER_SMALL == 3
MARK_PUSH_BLOCK_NOT_FREE == 4
INVALID_BLOCK_STATUS == 5
INVALID_BLOCK_STATUS_CHANGE == 6

\* largest FIFO buffer size given to the constructor
MaxMarkBufSize == 7

\* how many records are pushed and not popped, and how many reads are
\* counted, at most
MaxMarkQueued == 2

\* the size of the EEPROM the FIFO buffer is the start of: a block header
\* read where data was written can lead past the FIFO buffer end, by less
\* than two blocks of the largest size
MarkEepromSize == MaxMarkBufSize + 2 * (DATA_SIZE_MAX + 1)

\* blockHeader & BLOCK_STATUS_BITS
MarkStatusOf(blockHeader) == (blockHeader \div 64) * 64

\* (blockHeader & BLOCK_SIZE_BITS) + 2
MarkSpanOf(blockHeader) == (blockHeader % 64) + 2

\* status | dataSize - 1 as EE_WRITE stores it, dataSize being a size_t:
\* for no data, dataSize - 1 has every bit set
MarkHeader(status, dataSize) ==
  IF dataSize = 0 THEN 255 ELSE status + ((dataSize - 1) % 64)

\* if (pBlock >= pRBufEnd) pBlock -= RBufSize;
MarkWrap(pBlock) == IF pBlock >= pRBufEnd THEN pBlock - rBufSize ELSE pBlock

\* the free blocks format fills the ring buffer with
RECURSIVE MarkFormatFill(_, _)
MarkFormatFill(pBlock, sizeToFill) ==
  IF sizeToFill >= DATA_SIZE_MAX + 1
    THEN LET rest == sizeToFill - (DATA_SIZE_MAX + 1)
             dataSize == IF rest = 1 THEN DATA_SIZE_MAX - 1 ELSE DATA_SIZE_MAX
         IN
         << <<pBlock, MarkHeader(MARK_FREE_BLOCK, dataSize)>> >>
           \o MarkFormatFill(pBlock + dataSize + 1,
                             IF rest = 1 THEN rest + 1 ELSE rest)
    ELSE << <<pBlock, MarkHeader(MARK_FREE_BLOCK, sizeToFill - 1)>> >>

MarkFormatWrites ==
  << <<pBotBlockOffset, 0>> >> \o MarkFormatFill(pRBufStart, rBufSize)

\* the while (1) of begin, with the pointers set so far
RECURSIVE MarkBeginScan(_, _, _, _, _)
MarkBeginScan(buf, pBlock0, blockHeader0, oldChangeStatus, cur) ==
  LET pBlock == pBlock0 + MarkSpanOf(blockHeader0) IN
  IF pBlock >= pRBufEnd THEN [cur EXCEPT !.rc = SUCCESS]
  ELSE
    LET blockHeader == EE_READ(buf, pBlock)
        blockStatus == MarkStatusOf(blockHeader)
    IN
    IF blockStatus = 128 THEN [cur EXCEPT !.rc = INVALID_BLOCK_STATUS]
    ELSE IF oldChangeStatus = blockStatus
      THEN MarkBeginScan(buf, pBlock, blockHeader, oldChangeStatus, cur)
    ELSE IF oldChangeStatus = MARK_FREE_BLOCK
      THEN MarkBeginScan(buf, pBlock, blockHeader, blockStatus,
             [cur EXCEPT !.pPop = pBlock,
                         !.pRead = IF blockStatus = NEW_BLOCK THEN pBlock
                                   ELSE @])
    ELSE IF oldChangeStatus = READ_BLOCK
      THEN MarkBeginScan(buf, pBlock, blockHeader, blockStatus,
             [cur EXCEPT !.pRead = pBlock,
                         !.pPush = IF blockStatus = MARK_FREE_BLOCK
                                     THEN pBlock ELSE @])
    ELSE IF blockStatus = READ_BLOCK
      THEN [cur EXCEPT !.pPush = pBlock, !.rc = INVALID_BLOCK_STATUS_CHANGE]
      ELSE MarkBeginScan(buf, pBlock, blockHeader, blockStatus,
             [cur EXCEPT !.pPush = pBlock])

\* begin: the status returned and the three pointers it leaves, cur0 being
\* the pointers held at the call
MarkBeginResult(buf, cur0) ==
  LET pBlock == pRBufStart + EE_READ(buf, pBotBlockOffset)
      blockHeader == EE_READ(buf, pBlock)
      blockStatus == MarkStatusOf(blockHeader)
  IN
  IF blockStatus = 128
    THEN [cur0 EXCEPT !.rc = INVALID_BLOCK_STATUS]
    ELSE MarkBeginScan(buf, pBlock, blockHeader, blockStatus,
                       [rc |-> SUCCESS, pPush |-> pBlock, pPop |-> pBlock,
                        pRead |-> pBlock])

\* the merge loop of push: the size of the free blocks taken from pPush on,
\* or -1 where a block that is not free is met
RECURSIVE MarkMergeFree(_, _, _, _)
MarkMergeFree(buf, push, n, blockSize) ==
  IF n + 3 > blockSize
    THEN LET blockHeader == EE_READ(buf, MarkWrap(push + blockSize)) IN
         IF MarkStatusOf(blockHeader) # MARK_FREE_BLOCK THEN -1
         ELSE MarkMergeFree(buf, push, n, blockSize + MarkSpanOf(blockHeader))
    ELSE blockSize

\* the status push returns
MarkPushStatus(buf, push, n) ==
  LET blockHeader == EE_READ(buf, push) IN
  IF MarkStatusOf(blockHeader) # MARK_FREE_BLOCK THEN MARK_PUSH_BLOCK_NOT_FREE
  ELSE IF MarkMergeFree(buf, push, n, MarkSpanOf(blockHeader)) = -1
    THEN FIFO_FULL
  ELSE SUCCESS

\* pData after the copy loops of push, and pPush on return
MarkPushDataEnd(push, n) ==
  IF push + n + 1 > pRBufEnd THEN push + n + 1 - rBufSize ELSE push + n + 1

MarkPushNext(push, n) ==
  IF MarkPushDataEnd(push, n) < pRBufEnd THEN MarkPushDataEnd(push, n)
  ELSE pRBufStart

\* the writes of a push that returns SUCCESS, in the order they are made:
\* the data, the bottom block offset of a splitted block, the header of the
\* new block, the bottom block offset at the ring buffer end, the header of
\* the free block made of what remains
MarkPushWrites(buf, push, d) ==
  LET n == Len(d)
      blockSize == MarkMergeFree(buf, push, n, MarkSpanOf(EE_READ(buf, push)))
      pData == MarkPushDataEnd(push, n)
  IN
  [i \in 1..n |-> <<PushDataAddr(push, n, i), d[i]>>]
    \o (IF push + n + 1 > pRBufEnd
          THEN << <<pBotBlockOffset, pData - pRBufStart>> >> ELSE <<>>)
    \o << <<push, MarkHeader(NEW_BLOCK, n)>> >>
    \o (IF pData < pRBufEnd THEN <<>> ELSE << <<pBotBlockOffset, 0>> >>)
    \o << <<MarkPushNext(push, n),
            MarkHeader(MARK_FREE_BLOCK, blockSize - n - 2)>> >>

\* readData: status, data copied, *size and pBlock on return, bufSize being
\* *size at the call
MarkReadData(buf, pBlock, bufSize) ==
  LET blockSize == MarkSpanOf(EE_READ(buf, pBlock)) IN
  IF blockSize - 1 > bufSize
    THEN [rc |-> MARK_DATA_BUFFER_SMALL, data |-> <<>>, size |-> bufSize,
          pBlock |-> pBlock]
    ELSE
      LET pData == IF pBlock + blockSize > pRBufEnd
                     THEN pBlock + blockSize - rBufSize
                     ELSE pBlock + blockSize
      IN
      [rc |-> SUCCESS,
       data |-> [i \in 1..(blockSize - 1) |->
                   EE_READ(buf, ReadDataAddr(pBlock, i))],
       size |-> blockSize - 1,
       pBlock |-> IF pData < pRBufEnd THEN pData ELSE pRBufStart]

\* the FIFO buffer sizes given to the constructor
MarkBufSizes == (BUFFER_SIZE_MIN + 1)..MaxMarkBufSize

\* FIFOEE(aBuffer, aBufSize) over an erased EEPROM, then format(); buffer
\* holds the whole EEPROM
InitMark ==
  /\ \E aBufSize \in MarkBufSizes :
       /\ rBufSize = aBufSize - 1
       /\ buffer = ApplyWrites(ErasedBuffer(MarkEepromSize), MarkFormatWrites)
  /\ pPush = pRBufStart
  /\ pPop = pRBufStart
  /\ pRead = pRBufStart
  /\ op = "format"
  /\ rc = SUCCESS
  /\ data = <<>>
  /\ size = 0
  /\ ready = TRUE
  /\ pushed = <<>>
  /\ nread = 0
  /\ NoDeferredCommit

\* format()
MarkFormat ==
  /\ op' = "format"
  /\ buffer' = ApplyWrites(buffer, MarkFormatWrites)
  /\ pPush' = pRBufStart
  /\ pPop' = pRBufStart
  /\ pRead' = pRBufStart
  /\ ready' = TRUE
  /\ pushed' = <<>>
  /\ nread' = 0
  /\ data' = <<>>
  /\ size' = 0
  /\ UNCHANGED <<rBufSize, rc>>
  /\ CommitNone
  /\ WholeCall

\* power down, power up: a new instance over the same EEPROM, whose
\* pointers hold no defined value, then begin()
MarkPowerCycle ==
  \E g \in {pRBufStart, pRBufEnd - 1} :
    LET r == MarkBeginResult(buffer, [rc |-> rc, pPush |-> g, pPop |-> g,
                                      pRead |-> g])
    IN
    /\ op' = "powercycle"
    /\ rc' = r.rc
    /\ pPush' = r.pPush
    /\ pPop' = r.pPop
    /\ pRead' = r.pRead
    /\ ready' = (r.rc = SUCCESS)
    /\ data' = <<>>
    /\ size' = 0
    /\ UNCHANGED <<buffer, rBufSize, pushed, nread>>
    /\ CommitNone
    /\ WholeCall

\* push(d, Len(d))
MarkPush(d) ==
  /\ ready
  /\ Len(pushed) < MaxMarkQueued
  /\ op' = "push"
  /\ data' = <<>>
  /\ size' = 0
  /\ rc' = MarkPushStatus(buffer, pPush, Len(d))
  /\ IF rc' = SUCCESS
       THEN /\ buffer' = ApplyWrites(buffer, MarkPushWrites(buffer, pPush, d))
            /\ pPush' = MarkPushNext(pPush, Len(d))
            /\ pushed' = Append(pushed, d)
       ELSE UNCHANGED <<buffer, pPush, pushed>>
  /\ UNCHANGED <<rBufSize, pPop, pRead, ready, nread>>
  /\ CommitNone
  /\ WholeCall

\* pop(data, &size), *size being bufSize
MarkPop(bufSize) ==
  /\ ready
  /\ op' = "pop"
  /\ IF pPop = pPush
       THEN /\ rc' = FIFO_EMPTY
            /\ data' = <<>>
            /\ size' = bufSize
            /\ UNCHANGED <<buffer, pPop, pRead, pushed, nread>>
       ELSE LET r == MarkReadData(buffer, pPop, bufSize) IN
            /\ rc' = r.rc
            /\ data' = r.data
            /\ size' = r.size
            /\ IF r.rc # SUCCESS
                 THEN UNCHANGED <<buffer, pPop, pRead, pushed, nread>>
                 ELSE /\ buffer' = EE_WRITE(buffer, pPop,
                                            MarkHeader(MARK_FREE_BLOCK, r.size))
                      /\ pRead' = IF pRead = pPop THEN r.pBlock ELSE pRead
                      /\ pPop' = r.pBlock
                      /\ pushed' = IF pushed = <<>> THEN <<>>
                                   ELSE Tail(pushed)
                      /\ nread' = IF nread > 0 THEN nread - 1 ELSE 0
  /\ UNCHANGED <<rBufSize, pPush, ready>>
  /\ CommitNone
  /\ WholeCall

\* read(data, &size), *size being bufSize
MarkRead(bufSize) ==
  /\ ready
  /\ op' = "read"
  /\ IF pRead = pPush
       THEN /\ rc' = FIFO_EMPTY
            /\ data' = <<>>
            /\ size' = bufSize
            /\ UNCHANGED <<buffer, pRead, nread>>
       ELSE LET r == MarkReadData(buffer, pRead, bufSize) IN
            /\ rc' = r.rc
            /\ data' = r.data
            /\ size' = r.size
            /\ IF r.rc # SUCCESS
                 THEN UNCHANGED <<buffer, pRead, nread>>
                 ELSE /\ buffer' = EE_WRITE(buffer, pRead,
                                            MarkHeader(READ_BLOCK, r.size))
                      /\ pRead' = r.pBlock
                      /\ nread' = IF nread < MaxMarkQueued THEN nread + 1
                                  ELSE nread
  /\ UNCHANGED <<rBufSize, pPush, pPop, ready, pushed>>
  /\ CommitNone
  /\ WholeCall

\* the dataSize values given to push: the header holds dataSize - 1, so
\* from one byte on, up to what the formatted ring buffer takes, a free
\* block of two bytes being left
MarkPushSizes == 1..(rBufSize - 3)

MarkPushAny ==
  \E n \in MarkPushSizes : MarkPush(CountUp(FREE_BLOCK + 1, n))

MarkPopAny == \E bufSize \in {0, DATA_SIZE_MAX} : MarkPop(bufSize)

MarkReadAny == \E bufSize \in {0, DATA_SIZE_MAX} : MarkRead(bufSize)

\* the calls of the test sketch but restartRead
NextMark ==
  \/ MarkFormat
  \/ MarkPowerCycle
  \/ MarkPushAny
  \/ MarkPopAny
  \/ MarkReadAny

SpecMark == InitMark /\ [][NextMark]_vars

TypeOK ==
  /\ pPush \in RingAddrs
  /\ pPop \in RingAddrs
  /\ pRead \in RingAddrs
  /\ \A a \in DOMAIN buffer : buffer[a] \in 0..255

\* ------------------------------------------------------------------------
\* the block chain, as the developer notes describe it
\* ------------------------------------------------------------------------
\* ring offset of an address and address of a ring offset
OffsetOf(addr) == addr - pRBufStart

BotBlock(buf) == pRBufStart + EE_READ(buf, pBotBlockOffset)

\* next block address = block header address + data size + 1, wrapped
NextBlock(buf, pBlock) == WrapPtr(pBlock + SpanOf(EE_READ(buf, pBlock)))

\* the walk from the bottom block: the header addresses visited and the
\* block sizes added up, until the sum reaches the ring buffer size
RECURSIVE ChainWalk(_, _, _, _)
ChainWalk(buf, pBlock, total, seen) ==
  IF total >= rBufSize
    THEN [blocks |-> seen, total |-> total, last |-> pBlock]
    ELSE ChainWalk(buf, NextBlock(buf, pBlock),
                   total + SpanOf(EE_READ(buf, pBlock)), Append(seen, pBlock))

Chain(buf) == ChainWalk(buf, BotBlock(buf), 0, <<>>)

\* the header addresses of the chain a block is on, walked from that block
Cycle(buf, pBlock) ==
  LET w == ChainWalk(buf, pBlock, 0, <<>>) IN
  {w.blocks[i] : i \in 1..Len(w.blocks)}

ChainBlocks(buf) ==
  LET blocks == Chain(buf).blocks IN {blocks[i] : i \in 1..Len(blocks)}

IsFree(buf, pBlock) == StatusOf(EE_READ(buf, pBlock)) = FREE_BLOCK

IsUsed(buf, pBlock) == StatusOf(EE_READ(buf, pBlock)) = USED_BLOCK

\* the header addresses on the walk from one block up to, not including,
\* another
RECURSIVE RunFrom(_, _, _, _)
RunFrom(buf, from, to, fuel) ==
  IF from = to \/ fuel = 0 THEN {}
  ELSE {from} \cup RunFrom(buf, NextBlock(buf, from), to, fuel - 1)

\* the blocks of the queue: from pPop up to, not including, pPush
Queue == RunFrom(buffer, pPop, pPush, rBufSize)

\* the records the pops would deliver, one after the other, until FIFO_EMPTY
RECURSIVE PopAll(_, _, _, _)
PopAll(buf, pop, push, fuel) ==
  IF pop = push \/ fuel = 0 THEN <<>>
  ELSE LET r == readData(buf, pop, FIFOEE_DATA_SIZE_MAX) IN
       <<r.data>> \o PopAll(buf, r.pBlock, push, fuel - 1)

\* the sizes of the blocks of a set, added up
RECURSIVE SpanSum(_, _)
SpanSum(buf, blocks) ==
  IF blocks = {} THEN 0
  ELSE LET b == CHOOSE x \in blocks : TRUE IN
       SpanOf(EE_READ(buf, b)) + SpanSum(buf, blocks \ {b})

\* the free space: the ring buffer size less the sizes of the used blocks
FreeTotal(buf) ==
  rBufSize - SpanSum(buf, {b \in ChainBlocks(buf) : IsUsed(buf, b)})

\* the header addresses begin steps over from the bottom block up to the
\* ring buffer end
RECURSIVE BeginWalk(_, _)
BeginWalk(buf, pBlock) ==
  IF pBlock >= pRBufEnd THEN {}
  ELSE {pBlock} \cup BeginWalk(buf, pBlock + SpanOf(EE_READ(buf, pBlock)))

BeginBlocks(buf) == BeginWalk(buf, BotBlock(buf))

\* the blocks of the walk of begin that are free and whose next block,
\* around the ring, is used: one for each run of used blocks
UsedRunHeads(buf) ==
  {b \in BeginBlocks(buf) : IsFree(buf, b) /\ IsUsed(buf, NextBlock(buf, b))}

\* the blocks of the walk of begin that are used and whose next block is
\* free
UsedRunTails(buf) ==
  {b \in BeginBlocks(buf) : IsUsed(buf, b) /\ IsFree(buf, NextBlock(buf, b))}

\* the addresses a block takes: its header and its data bytes
BlockCells(buf, pBlock) ==
  {ReadDataAddr(pBlock, i) : i \in 0..(SpanOf(EE_READ(buf, pBlock)) - 1)}

\* the used blocks of the chain
UsedBlocks(buf) == {b \in ChainBlocks(buf) : IsUsed(buf, b)}

\* the sizes of the free blocks of the chain, added up
FreeSpan(buf) == SpanSum(buf, {b \in ChainBlocks(buf) : IsFree(buf, b)})

\* the pointers held now, as begin takes them
Pointers == [rc |-> rc, pPush |-> pPush, pPop |-> pPop, pRead |-> pRead]

\* the last method called did its work
Succeeded == IF op = "format" THEN ready ELSE rc = SUCCESS

\* ------------------------------------------------------------------------
\* properties
\* ------------------------------------------------------------------------

\* C1: every pop that returns SUCCESS delivers the size and the bytes of the
\* oldest record pushed with success and not yet popped: pops follow the
\* pushes one by one, in order.
C1_PopDeliversPushed ==
  [][(op' = "pop" /\ rc' = SUCCESS)
       => (/\ pushed # <<>>
           /\ data' = Head(pushed)
           /\ size' = Len(Head(pushed)))]_vars

\* a second record of two bytes, stored across the ring buffer end, is
\* popped after a first one
C1_Witness ==
  /\ op = "pop"
  /\ rc = SUCCESS
  /\ size = 2
  /\ data[1] # data[2]
  /\ EE_READ(buffer, pBotBlockOffset) # 0
  /\ pPop = BotBlock(buffer)

\* C2: from a state reached by successful calls, a power cycle followed by
\* begin returns SUCCESS and the pops that follow deliver the records they
\* would have delivered without it.
C2_PowerCycleTransparent ==
  [][(op' = "powercycle" /\ ready)
       => (/\ rc' = SUCCESS
           /\ PopAll(buffer', pPop', pPush', rBufSize)
                = PopAll(buffer, pPop, pPush, rBufSize))]_vars

\* C3: after a successful format, push or pop, the walk from the bottom
\* block adds up block sizes to exactly the ring buffer size and comes back
\* to the bottom block.
C3_ChainTilesRing ==
  (op \in {"format", "push", "pop"} /\ Succeeded)
    => (/\ Chain(buffer).total = rBufSize
        /\ Chain(buffer).last = BotBlock(buffer))

\* after a push, a chain of three blocks whose last one wraps
C3_Witness ==
  /\ op = "push"
  /\ rc = SUCCESS
  /\ Len(Chain(buffer).blocks) >= 3
  /\ EE_READ(buffer, pBotBlockOffset) # 0

\* C4: after a successful method, pPop and pPush are blocks of the chain,
\* the used blocks of the chain are exactly the blocks walked from pPop up
\* to pPush, and the block at pPush is free (so pPop = pPush exactly when
\* no block is used).
C4_UsedRunPopToPush ==
  Succeeded
    => (/\ pPop \in ChainBlocks(buffer)
        /\ pPush \in ChainBlocks(buffer)
        /\ IsFree(buffer, pPush)
        /\ \A b \in ChainBlocks(buffer) : IsUsed(buffer, b) <=> b \in Queue
        /\ (pPop = pPush) <=> (\A b \in ChainBlocks(buffer) : IsFree(buffer, b)))

\* two used blocks between pPop and pPush, the run crossing the ring end
C4_Witness ==
  /\ Succeeded
  /\ Cardinality(Queue) >= 2
  /\ pPush < pPop
  /\ pPush # pRBufStart

\* C5: after a successful method the chain holds at least one free block.
C5_FreeBlockKept ==
  Succeeded => \E b \in ChainBlocks(buffer) : IsFree(buffer, b)

\* a push has left a single free block of one byte
C5_Witness ==
  /\ op = "push"
  /\ rc = SUCCESS
  /\ Cardinality({b \in ChainBlocks(buffer) : IsFree(buffer, b)}) = 1
  /\ EE_READ(buffer, pPush) = FreeHeader(0)

\* C6: after a successful method, pushes taking every dataSize from 0 on,
\* no block header of the chain is 0x00.
C6_NoZeroHeader ==
  Succeeded => \A b \in ChainBlocks(buffer) : EE_READ(buffer, b) # 0

\* C7: after a successful format, push or pop, the offset of the bottom
\* block is the smallest ring offset a block header sits at, the blocks
\* being those of the chain pPush is on: 0 where a block starts at the ring
\* buffer start, else the offset past the data of the one block that wraps
\* at the ring buffer end.
C7_BotOffsetSmallest ==
  (op \in {"format", "push", "pop"} /\ Succeeded)
    => LET blocks == Cycle(buffer, pPush) IN
       /\ BotBlock(buffer) \in blocks
       /\ \A b \in blocks : BotBlock(buffer) <= b
       /\ IF pRBufStart \in blocks
            THEN BotBlock(buffer) = pRBufStart
            ELSE \E b \in blocks :
                   /\ b + SpanOf(EE_READ(buffer, b))
                        = BotBlock(buffer) + rBufSize
                   /\ \A c \in blocks \ {b} :
                        c + SpanOf(EE_READ(buffer, c)) <= pRBufEnd

\* a push stored across the ring buffer end has moved the bottom block
C7_Witness ==
  /\ op = "push"
  /\ rc = SUCCESS
  /\ OffsetOf(BotBlock(buffer)) >= 2
  /\ pPush = BotBlock(buffer)

\* C8 as stated: pRead is a used block on the walk from pPop up to pPush,
\* and pRead = pPush exactly when the queue is empty.
C8_ReadInQueueOrEmpty ==
  Succeeded
    => (/\ pRead \in Queue \cup {pPush}
        /\ (pRead = pPush) <=> (pPop = pPush))

\* C8, amended: after a successful method pRead is a block on the walk from
\* pPop up to pPush or is pPush itself (which it is whenever the queue is
\* empty, and also once every record of the queue has been read).
C8_ReadInQueueOrAtPush ==
  Succeeded
    => (/\ pRead \in Queue \cup {pPush}
        /\ (pRead \in Queue => IsUsed(buffer, pRead))
        /\ (pPop = pPush => pRead = pPush))

\* pRead sits on the second of two queued records, after a pop moved it
\* and a read advanced it
C8_Witness ==
  /\ Succeeded
  /\ Cardinality(Queue) >= 2
  /\ pRead \in Queue
  /\ pRead # pPop

\* every record read, none popped: pRead is at pPush, the queue not empty
C8_AllRead ==
  /\ Succeeded
  /\ pRead = pPush
  /\ pPop # pPush

C10_BeginWritesNothing ==
  [][(op' \in {"begin", "powercycle"})
       => (/\ buffer' = buffer
           /\ begin(buffer', [rc |-> rc', pPush |-> pPush', pPop |-> pPop',
                              pRead |-> pRead'])
                = [rc |-> rc', pPush |-> pPush', pPop |-> pPop',
                   pRead |-> pRead'])]_vars

\* begin has failed on a zero header met after a change of status
C10_Witness ==
  /\ op = "begin"
  /\ rc = INVALID_BLOCK_HEADER
  /\ ~BeginKeepsPointers(buffer)
  /\ pPop # pPush

\* C11: whenever begin returns SUCCESS, on the running instance or after a
\* power cycle, pRead equals pPop: reading restarts from the oldest used
\* block.
C11_BeginResetsRead ==
  (op \in {"begin", "powercycle"} /\ rc = SUCCESS) => pRead = pPop

\* begin has succeeded on a queue of two records that crosses the ring end
C11_Witness ==
  /\ op = "begin"
  /\ rc = SUCCESS
  /\ Cardinality(Queue) >= 2
  /\ pPush < pPop
  /\ pRead = pPop

C13_ReadsInPushOrder ==
  [][(op' = "read")
       => (/\ (rc' = FIFO_EMPTY) <=> (nread = Len(pushed))
           /\ (rc' = SUCCESS
                 => (/\ nread < Len(pushed)
                     /\ data' = pushed[nread + 1]
                     /\ size' = Len(pushed[nread + 1]))))]_vars

\* the third read in a row has delivered a third record of one byte
C13_Witness ==
  /\ op = "read"
  /\ rc = SUCCESS
  /\ nread = 3
  /\ Len(pushed) = 3
  /\ size = 1

\* C14: a successful pop moves pRead to the new queue head where pRead was
\* on the popped block and leaves it where it was ahead of pPop; the block
\* a successful read delivers is a used block of the queue.
C14_PopKeepsReadInQueue ==
  [][/\ (op' = "pop" /\ rc' = SUCCESS)
          => (/\ (pRead = pPop => pRead' = pPop')
              /\ (pRead # pPop => pRead' = pRead))
     /\ (op' = "read" /\ rc' = SUCCESS)
          => (pRead \in Queue /\ IsUsed(buffer, pRead))]_vars

\* a pop has left the read pointer ahead of the new queue head
C14_Witness ==
  /\ op = "pop"
  /\ rc = SUCCESS
  /\ nread >= 1
  /\ pRead # pPop
  /\ pPop # pPush

\* C15: a push that returns FIFO_FULL or PUSH_BLOCK_NOT_FREE, the only
\* failures it has, changes no byte of the FIFO buffer and none of the three
\* pointers, whatever the FIFO buffer holds.
C15_FailedPushChangesNothing ==
  [][(op' = "push" /\ rc' # SUCCESS)
       => (/\ rc' \in {FIFO_FULL, PUSH_BLOCK_NOT_FREE}
           /\ buffer' = buffer
           /\ pPush' = pPush
           /\ pPop' = pPop
           /\ pRead' = pRead
           /\ pushed' = pushed)]_vars

\* a push has found a used block at pPush
C15_Witness ==
  /\ op = "push"
  /\ rc = PUSH_BLOCK_NOT_FREE
  /\ IsUsed(buffer, pPush)

\* a push has found too little free space after merging a free block
C15_FullAfterMerge ==
  /\ op = "push"
  /\ rc = FIFO_FULL
  /\ IsFree(buffer, pPush)
  /\ IsFree(buffer, NextBlock(buffer, pPush))
  /\ NextBlock(buffer, pPush) # pPush

\* C16: in every state reached from format where push may be called, push
\* of n bytes, n from 0 to 127, returns SUCCESS if n + 2 is at most the free
\* space and FIFO_FULL if not.
C16_PushFitsFreeSpace ==
  ready
    => LET free == FreeTotal(buffer) IN
       \A n \in 0..FIFOEE_DATA_SIZE_MAX :
         PushStatus(buffer, pPush, n)
           = IF n + 2 <= free THEN SUCCESS ELSE FIFO_FULL

\* a push has failed where the only free space is one block of one byte
C16_Witness ==
  /\ op = "push"
  /\ rc = FIFO_FULL
  /\ FreeTotal(buffer) = 1
  /\ EE_READ(buffer, pPush) = FreeHeader(0)

\* a push has taken three free blocks, one of them across the ring end
C16_MergedThree ==
  /\ op = "push"
  /\ rc = SUCCESS
  /\ pushed # <<>>
  /\ Len(pushed[Len(pushed)]) = 3
  /\ EE_READ(buffer, pBotBlockOffset) # 0

\* C17: from format on, pushes being of 1 byte or more and every pop and
\* read given a data buffer of 127 bytes, push returns SUCCESS or FIFO_FULL
\* and pop and read return SUCCESS or FIFO_EMPTY.
C17_OnlyRoutineStatus ==
  /\ (op = "push") => rc \in {SUCCESS, FIFO_FULL}
  /\ (op \in {"pop", "read"})
       => \/ rc \in {SUCCESS, FIFO_EMPTY}
          \/ (rc = DATA_BUFFER_SMALL /\ size < FIFOEE_DATA_SIZE_MAX)

\* a push has returned FIFO_FULL at the free block pPop has come back to
C17_Witness ==
  /\ op = "push"
  /\ rc = FIFO_FULL
  /\ IsFree(buffer, pPush)
  /\ pPop # pPush
  /\ Len(pushed) >= 2

\* C18: pop and read, given a data buffer smaller than the data of the block
\* at pPop / pRead, return DATA_BUFFER_SMALL, change no byte of the FIFO
\* buffer and no pointer and leave the caller's size as it was; the same
\* call with a data buffer of 127 bytes then delivers that record.
C18_SmallBufferChangesNothing ==
  [][\A b \in DataBufSizes :
       /\ (Pop(b) /\ pPop # pPush /\ b < SpanOf(EE_READ(buffer, pPop)) - 1)
            => (/\ rc' = DATA_BUFFER_SMALL
                /\ size' = b
                /\ buffer' = buffer
                /\ <<pPush', pPop', pRead'>> = <<pPush, pPop, pRead>>
                /\ readData(buffer', pPop', FIFOEE_DATA_SIZE_MAX).rc = SUCCESS
                /\ readData(buffer', pPop', FIFOEE_DATA_SIZE_MAX).data
                     = Head(pushed))
       /\ (Read(b) /\ pRead # pPush /\ b < SpanOf(EE_READ(buffer, pRead)) - 1)
            => (/\ rc' = DATA_BUFFER_SMALL
                /\ size' = b
                /\ buffer' = buffer
                /\ <<pPush', pPop', pRead'>> = <<pPush, pPop, pRead>>
                /\ readData(buffer', pRead', FIFOEE_DATA_SIZE_MAX).rc = SUCCESS
                /\ readData(buffer', pRead', FIFOEE_DATA_SIZE_MAX).data
                     = pushed[nread + 1])]_vars

\* a pop with a data buffer of 0 bytes has met a record of 2 bytes stored
\* across the ring buffer end
C18_Witness ==
  /\ op = "pop"
  /\ rc = DATA_BUFFER_SMALL
  /\ size = 0
  /\ Len(Head(pushed)) = 2
  /\ pPop + 2 >= pRBufEnd

\* C19: pop returns FIFO_EMPTY exactly when pPop = pPush, read exactly when
\* pRead = pPush, and then no byte of the FIFO buffer and no pointer
\* changes.
C19_EmptyExactlyAtPush ==
  [][/\ (op' = "pop") => ((rc' = FIFO_EMPTY) <=> (pPop = pPush))
     /\ (op' = "read") => ((rc' = FIFO_EMPTY) <=> (pRead = pPush))
     /\ (op' \in {"pop", "read"} /\ rc' = FIFO_EMPTY)
          => (/\ buffer' = buffer
              /\ <<pPush', pPop', pRead'>> = <<pPush, pPop, pRead>>)]_vars

\* read has returned FIFO_EMPTY with two records read and still queued
C19_Witness ==
  /\ op = "read"
  /\ rc = FIFO_EMPTY
  /\ pRead = pPush
  /\ Cardinality(Queue) = 2
  /\ nread = 2

\* C20: over a FIFO buffer of BUFFER_SIZE_MIN bytes, a push of one byte
\* after format returns SUCCESS, and a second push of any dataSize from 0 on
\* then returns FIFO_FULL.
C20_SecondPushFull ==
  [][/\ (op' = "format" /\ rBufSize' = BUFFER_SIZE_MIN - 1)
          => PushStatus(buffer', pPush', 1) = SUCCESS
     /\ (/\ rBufSize = BUFFER_SIZE_MIN - 1
         /\ op = "push"
         /\ rc = SUCCESS
         /\ Len(pushed) = 1
         /\ Len(pushed[1]) = 1
         /\ pPop = pRBufStart
         /\ pPush = pRBufStart + 2
         /\ op' = "push")
          => rc' = FIFO_FULL]_vars

C22_SplitPushWraps ==
  [][(op' = "push" /\ rc' = SUCCESS)
       => LET d == pushed'[Len(pushed')]
              n == Len(d)
              o == OffsetOf(pPush)
          IN
          (o + n + 1 > rBufSize)
            => (/\ \A i \in 1..n :
                     EE_READ(buffer', pRBufStart +
                             (IF o + i <= rBufSize - 1 THEN o + i
                              ELSE o + i - rBufSize)) = d[i]
                /\ EE_READ(buffer', pBotBlockOffset) = o + n + 1 - rBufSize
                /\ OffsetOf(pPush') = o + n + 1 - rBufSize)]_vars

\* a record of 3 bytes has been pushed with one byte before the ring buffer
\* end and two after the start
C22_Witness ==
  /\ op = "push"
  /\ rc = SUCCESS
  /\ Len(pushed[Len(pushed)]) = 3
  /\ pushed[Len(pushed)][1] # pushed[Len(pushed)][2]
  /\ EE_READ(buffer, pBotBlockOffset) = 2
  /\ pPush = BotBlock(buffer)

\* C23: where a push succeeds on a block that ends exactly at the ring
\* buffer end (offset of pPush + n + 1 = rBufSize), afterwards pPush is at
\* offset 0 and the offset of the bottom block is 0.
C23_PushToRingEnd ==
  [][(op' = "push" /\ rc' = SUCCESS)
       => LET n == Len(pushed'[Len(pushed')]) IN
          (OffsetOf(pPush) + n + 1 = rBufSize)
            => (/\ OffsetOf(pPush') = 0
                /\ EE_READ(buffer', pBotBlockOffset) = 0)]_vars

\* a second record has been pushed up to the ring buffer end while the first
\* one is still queued, pPush being back at the ring buffer start
C23_Witness ==
  /\ op = "push"
  /\ rc = SUCCESS
  /\ Len(pushed) = 1
  /\ pPop # pRBufStart
  /\ NextBlock(buffer, pPop) = pRBufStart
  /\ pPush = pRBufStart
  /\ EE_READ(buffer, pBotBlockOffset) = 0

\* C24: after format of a ring buffer of any size from BUFFER_SIZE_MIN - 1
\* on, the offset of the bottom block is 0, the three pointers are at the
\* ring buffer start, and free blocks of BLOCK_SIZE_MAX bytes followed by one
\* last free block tile the ring buffer from its start, their sizes adding
\* up to rBufSize; begin then returns SUCCESS with the pointers at the ring
\* buffer start, and pop then returns FIFO_EMPTY.
C24_FormatTilesRing ==
  [][/\ (op' = "format" /\ ready')
          => (/\ EE_READ(buffer', pBotBlockOffset) = 0
              /\ <<pPush', pPop', pRead'>>
                   = <<pRBufStart, pRBufStart, pRBufStart>>
              /\ \A k \in 0..((rBufSize - 1) \div BLOCK_SIZE_MAX) :
                   LET h == EE_READ(buffer', pRBufStart + k * BLOCK_SIZE_MAX)
                       left == rBufSize - k * BLOCK_SIZE_MAX
                   IN
                   /\ IsFreeHeader(h)
                   /\ SpanOf(h) = IF left > BLOCK_SIZE_MAX
                                    THEN BLOCK_SIZE_MAX ELSE left
              /\ Len(Chain(buffer').blocks)
                   = ((rBufSize - 1) \div BLOCK_SIZE_MAX) + 1
              /\ Chain(buffer').total = rBufSize)
     /\ (op = "format" /\ ready /\ op' = "begin")
          => (/\ rc' = SUCCESS
              /\ <<pPush', pPop', pRead'>>
                   = <<pRBufStart, pRBufStart, pRBufStart>>)
     /\ (op = "begin" /\ rc = SUCCESS /\ pushed = <<>> /\ op' = "pop")
          => rc' = FIFO_EMPTY]_vars

\* pop has returned FIFO_EMPTY on a ring buffer that format tiled with two
\* blocks of BLOCK_SIZE_MAX bytes and a last one of 2 bytes
C24_Witness ==
  /\ op = "pop"
  /\ rc = FIFO_EMPTY
  /\ rBufSize = 2 * BLOCK_SIZE_MAX + 2
  /\ Len(Chain(buffer).blocks) = 3
  /\ EE_READ(buffer, pRBufStart + 2 * BLOCK_SIZE_MAX) = FreeHeader(1)

\* C25: format returns INVALID_FIFO_BUFFER_SIZE and writes nothing where the
\* FIFO buffer is smaller than BUFFER_SIZE_MIN bytes, and returns SUCCESS
\* where it is not.
C25_FormatStatus ==
  [][(op' = "format")
       => IF rBufSize < BUFFER_SIZE_MIN - 1
            THEN rc' = INVALID_FIFO_BUFFER_SIZE /\ buffer' = buffer
            ELSE rc' = SUCCESS]_vars

\* C26: whatever the FIFO buffer holds, if a header on the walk of begin
\* from the bottom block is 0x00 then begin returns INVALID_BLOCK_HEADER; so
\* it does on a region it accepts of which any one header is then zeroed.
C26_ZeroHeaderInvalid ==
  LET walk == BeginBlocks(buffer) IN
  /\ (\E b \in walk : EE_READ(buffer, b) = 0)
       => (/\ begin(buffer, Pointers).rc = INVALID_BLOCK_HEADER
           /\ (op = "begin") => (rc = INVALID_BLOCK_HEADER))
  /\ (begin(buffer, Pointers).rc = SUCCESS)
       => \A b \in walk :
            begin(EE_WRITE(buffer, b, 0), Pointers).rc = INVALID_BLOCK_HEADER

\* begin has returned INVALID_BLOCK_HEADER for the header of the second
\* block of its walk, which starts above the ring buffer start
C26_Witness ==
  /\ op = "begin"
  /\ rc = INVALID_BLOCK_HEADER
  /\ EE_READ(buffer, pBotBlockOffset) = 1
  /\ Cardinality(BeginBlocks(buffer)) = 2
  /\ EE_READ(buffer, BotBlock(buffer)) # 0
  /\ EE_READ(buffer, pRBufEnd - 1) = 0

\* C27: where no header on the walk of begin is 0x00 and the sizes of the
\* blocks on the walk do not add up to rBufSize, begin returns
\* WRONG_RBUFFER_SIZE.
C27_WrongSizeReported ==
  (/\ op = "begin"
   /\ \A b \in BeginBlocks(buffer) : EE_READ(buffer, b) # 0
   /\ SpanSum(buffer, BeginBlocks(buffer)) # rBufSize)
    => rc = WRONG_RBUFFER_SIZE

\* begin returns WRONG_RBUFFER_SIZE for no content of the FIFO buffer
C27_NeverWrongSize ==
  begin(buffer, Pointers).rc # WRONG_RBUFFER_SIZE

\* C28: on a FIFO buffer whose blocks, walked from the bottom block, add up
\* to rBufSize and hold more than one run of used blocks (more than one free
\* block followed by a used one, more than one used block followed by a free
\* one), begin returns UNCLOSED_BLOCK_LIST or INVALID_BLOCK_HEADER.
C28_TwoUsedRunsRejected ==
  (/\ op = "begin"
   /\ SpanSum(buffer, BeginBlocks(buffer)) = rBufSize
   /\ Cardinality(UsedRunHeads(buffer)) > 1
   /\ Cardinality(UsedRunTails(buffer)) > 1)
    => rc \in {UNCLOSED_BLOCK_LIST, INVALID_BLOCK_HEADER}

\* C29: where a push stops between two of its single-byte writes and begin
\* then returns SUCCESS, the records the pops would deliver are exactly
\* those queued before the push or exactly those queued after it.
C29_TornPushRecovered ==
  (op = "torn" /\ rc = SUCCESS)
    => PopAll(buffer, pPop, pPush, rBufSize)
         \in {pushed, Append(pushed, data)}

\* C30: in the build for a medium with deferred commit, with a commitPeriod
\* of 0, no call of format, push or pop calls EEPROM.commit().
C30_NoCommitAtPeriodZero ==
  [][(esp /\ commitPeriod = 0 /\ op' \in {"format", "push", "pop"})
       => ~committed']_vars

\* with a commitPeriod of 0 no push and no pop commits
C30_PushPopNeverCommit ==
  (esp /\ commitPeriod = 0 /\ op \in {"push", "pop"}) => ~committed

\* C31: in the build for a medium with deferred commit, with a commitPeriod
\* above 0 and a clock that does not wrap, a call of format, push or pop
\* that calls EEPROM.commit() does so commitPeriod ms or more after the
\* commit before it.
C31_CommitsSpaced ==
  [][(esp /\ commitPeriod > 0 /\ op' \in {"format", "push", "pop"}
        /\ committed')
       => millis' - lastCommit >= commitPeriod]_vars

\* the commits that push and pop ask for come commitPeriod ms or more after
\* the commit before them, a commit of format included
C31_RequestedCommitsSpaced ==
  [][(esp /\ commitPeriod > 0 /\ op' \in {"push", "pop"} /\ committed')
       => millis' - lastCommit >= commitPeriod]_vars

\* C32: a successful pop changes exactly one byte of the FIFO buffer, the
\* header at pPop, which becomes free with the data size it had; the data
\* bytes, every other header and the offset of the bottom block stay as they
\* were, and pPop moves to the offset (pPop + data size + 1) mod rBufSize.
C32_PopFreesOneHeader ==
  [][(op' = "pop" /\ rc' = SUCCESS)
       => LET dataSize == EE_READ(buffer, pPop) % BLOCK_SIZE_MAX IN
          /\ EE_READ(buffer', pPop) # EE_READ(buffer, pPop)
          /\ IsFreeHeader(EE_READ(buffer', pPop))
          /\ EE_READ(buffer', pPop) % BLOCK_SIZE_MAX = dataSize
          /\ \A addr \in DOMAIN buffer \ {pPop} :
               EE_READ(buffer', addr) = EE_READ(buffer, addr)
          /\ OffsetOf(pPop') = (OffsetOf(pPop) + dataSize + 1) % rBufSize]_vars

\* the only record queued, one of 2 bytes, has been popped: its block lies
\* free next to the free block at pPush, the bottom block being above the
\* ring buffer start
C32_Witness ==
  /\ op = "pop"
  /\ rc = SUCCESS
  /\ size = 2
  /\ pPop = pPush
  /\ EE_READ(buffer, pBotBlockOffset) # 0
  /\ Cardinality({b \in ChainBlocks(buffer) : IsFree(buffer, b)}) >= 2

\* C33: no push, whatever it returns, changes the header or a data byte of
\* a block that is used at the call: the bytes it changes lie in the free
\* blocks it takes from pPush on (or are the offset of the bottom block),
\* and the used blocks after it are those before it and, where it succeeds,
\* the one it wrote at pPush.
C33_PushKeepsUsedBlocks ==
  [][(op' = "push")
       => (/\ \A b \in UsedBlocks(buffer) :
                \A addr \in BlockCells(buffer, b) :
                  EE_READ(buffer', addr) = EE_READ(buffer, addr)
           /\ UsedBlocks(buffer')
                = UsedBlocks(buffer)
                    \cup (IF rc' = SUCCESS THEN {pPush} ELSE {}))]_vars

\* a push has taken the free block at the ring buffer end and the free
\* block a pop left at the ring buffer start, a used block lying between
\* them
C33_Witness ==
  /\ op = "push"
  /\ rc = SUCCESS
  /\ rBufSize = 5
  /\ Len(pushed) = 2
  /\ OffsetOf(pPop) = 2
  /\ OffsetOf(pPush) = 1
  /\ EE_READ(buffer, pBotBlockOffset) = 1

\* C34: after a successful push of n bytes with pPush at p, the header at p
\* is used with data size n, pPush is at the offset (p + n + 1) mod rBufSize
\* and holds a free header, the sizes of the free blocks add up to n + 1
\* less than before, and pPop is as it was.
C34_PushTakesSizePlusOne ==
  [][(op' = "push" /\ rc' = SUCCESS)
       => LET n == Len(pushed'[Len(pushed')]) IN
          /\ IsUsed(buffer', pPush)
          /\ EE_READ(buffer', pPush) % BLOCK_SIZE_MAX = n
          /\ OffsetOf(pPush') = (OffsetOf(pPush) + n + 1) % rBufSize
          /\ IsFree(buffer', pPush')
          /\ FreeSpan(buffer') = FreeSpan(buffer) - (n + 1)
          /\ pPop' = pPop]_vars

\* a push across the ring buffer end has left one free byte, between the
\* record it stored and the record queued before it
C34_Witness ==
  /\ op = "push"
  /\ rc = SUCCESS
  /\ Len(pushed) = 2
  /\ FreeSpan(buffer) = 1
  /\ EE_READ(buffer, pPush) = FreeHeader(0)
  /\ pPush < pPop
  /\ pPush # pRBufStart

\* C35: the writes of a successful push come in this order: the header of
\* the residual free block, where there is one, first; then the data bytes,
\* first byte first; the used header at pPush after every data byte, and
\* once only; any other write is one to the offset of the bottom block.
C35_PushWriteOrder ==
  [][(op' = "push" /\ rc' = SUCCESS)
       => LET d == pushed'[Len(pushed')]
              n == Len(d)
              w == PushWrites(buffer, pPush, d)
              residual == /\ w[1][1] = WrapPtr(pPush + n + 1)
                          /\ IsFreeHeader(w[1][2])
              k == IF residual THEN 1 ELSE 0
              headers == {i \in 1..Len(w) : w[i][1] = pPush}
          IN
          /\ buffer' = ApplyWrites(buffer, w)
          /\ \A i \in 1..n :
               w[k + i] = <<WrapPtr(pPush + i), d[i]>>
          /\ Cardinality(headers) = 1
          /\ \A h \in headers :
               /\ h > k + n
               /\ w[h][2] = USED_BLOCK + n
          /\ \A i \in (1..Len(w)) \ (headers \cup 1..(k + n)) :
               w[i][1] = pBotBlockOffset
          /\ (EE_READ(buffer', pPush') # EE_READ(buffer, pPush'))
               => residual]_vars

\* a record of 2 bytes has been pushed across the ring buffer end, a
\* residual free block of 2 bytes written after it
C35_Witness ==
  /\ op = "push"
  /\ rc = SUCCESS
  /\ rBufSize = 5
  /\ Len(pushed) = 1
  /\ Len(pushed[1]) = 2
  /\ OffsetOf(pPush) = 1
  /\ EE_READ(buffer, pPush) = FreeHeader(1)
  /\ EE_READ(buffer, pBotBlockOffset) = 1

\* the writes of a list that go to the offset of the bottom block
AnchorWrites(w) == {i \in 1..Len(w) : w[i][1] = pBotBlockOffset}

\* C36: the offset of the bottom block is written by format and by a
\* successful push whose block reaches or crosses the ring buffer end
\* (offset of pPush + n + 1 >= rBufSize), which writes it once; no other
\* push writes it, and pop, read, restartRead, begin and a push that fails
\* leave it as it is.
C36_AnchorWrittenAtRingEnd ==
  [][/\ (op' = "push" /\ rc' = SUCCESS)
          => LET d == pushed'[Len(pushed')]
                 w == PushWrites(buffer, pPush, d)
             IN
             /\ buffer' = ApplyWrites(buffer, w)
             /\ Cardinality(AnchorWrites(w))
                  = IF OffsetOf(pPush) + Len(d) + 1 >= rBufSize THEN 1 ELSE 0
             /\ (OffsetOf(pPush) + Len(d) + 1 < rBufSize)
                  => EE_READ(buffer', pBotBlockOffset)
                       = EE_READ(buffer, pBotBlockOffset)
     /\ (op' = "pop" /\ rc' = SUCCESS)
          => AnchorWrites(PopWrites(pPop, SpanOf(EE_READ(buffer, pPop)))) = {}
     /\ (\/ op' \in {"pop", "read", "restartRead", "begin", "powercycle"}
         \/ (op' = "push" /\ rc' # SUCCESS))
          => EE_READ(buffer', pBotBlockOffset)
               = EE_READ(buffer, pBotBlockOffset)
     /\ (op' = "format" /\ ready')
          => (/\ AnchorWrites(FormatWrites) # {}
              /\ buffer' = ApplyWrites(buffer, FormatWrites))]_vars

\* over a ring buffer of 4 bytes a record of 2 bytes has been pushed
\* across the ring buffer end, the bottom block now being at offset 1
C36_Witness ==
  /\ op = "push"
  /\ rc = SUCCESS
  /\ rBufSize = 4
  /\ Len(pushed) = 1
  /\ OffsetOf(pPop) = 2
  /\ OffsetOf(pPush) = 1
  /\ EE_READ(buffer, pBotBlockOffset) = 1

\* C37: whatever the FIFO buffer holds, where begin returns SUCCESS the
\* block at pPush is free, so that the push that follows does not return
\* PUSH_BLOCK_NOT_FREE; a ring buffer whose blocks are all used is not
\* accepted.
C37_BeginLeavesPushFree ==
  (op = "begin" /\ rc = SUCCESS)
    => (/\ IsFree(buffer, pPush)
        /\ \A n \in 0..FIFOEE_DATA_SIZE_MAX :
             PushStatus(buffer, pPush, n) # PUSH_BLOCK_NOT_FREE)

\* where begin returns SUCCESS and a block of its walk is free, the block
\* at pPush is free
C37_PushFreeIfAnyFree ==
  (op = "begin" /\ rc = SUCCESS
     /\ \E b \in BeginBlocks(buffer) : IsFree(buffer, b))
    => IsFree(buffer, pPush)

\* C38 as stated: every call of format, begin, push, pop or read returns,
\* whatever the FIFO buffer holds and wherever the pointers stand.
C38_CallsReturn == (loop.pc # "idle") ~> (loop.pc = "idle")

\* C38, amended: every call of format, begin, push, pop or read returns,
\* but a format or begin whose EEPROM.begin() fails, which goes into the
\* endless delay loop and nowhere else.
C38_CallsReturnUnlessHalted ==
  /\ (loop.pc \notin {"idle", "halt"}) ~> (loop.pc = "idle")
  /\ [][(loop'.pc = "halt" /\ loop.pc # "halt")
          => (/\ esp
              /\ eepromBegin
              /\ loop.pc = "idle"
              /\ op' \in {"format", "begin"})]_vars

\* begin has come to the ring buffer end, after three blocks, on a chain
\* that does not close
C38_Witness ==
  /\ loop.pc = "idle"
  /\ op = "begin"
  /\ rc = UNCLOSED_BLOCK_LIST
  /\ rBufSize = BUFFER_SIZE_MIN - 1
  /\ Cardinality(BeginBlocks(buffer)) = 3

\* push has given up after its merge loop took in two free blocks of a
\* chain that does not close
C38_MergeEnds ==
  /\ loop.pc = "idle"
  /\ op = "push"
  /\ rc = FIFO_FULL
  /\ rBufSize = BUFFER_SIZE_MIN - 1
  /\ begin(buffer, Pointers).rc = UNCLOSED_BLOCK_LIST
  /\ IsFree(buffer, pPush)
  /\ IsFree(buffer, NextBlock(buffer, pPush))
  /\ NextBlock(buffer, pPush) # pPush

\* C39: on the ESP build, after power is lost and the FIFO buffer is back
\* to what the last commit stored, begin returns SUCCESS and the pops that
\* follow deliver the records that were queued at that commit.
C39_CrashRecoversFlushed ==
  [][op' = "crash"
       => (/\ rc' = SUCCESS
           /\ PopAll(buffer', pPop', pPush', rBufSize) = flushed)]_vars

\* C39, for a commit made while no record of no data was queued
C39_CrashRecoversNonEmpty ==
  [][(op' = "crash" /\ \A i \in 1..Len(flushed) : Len(flushed[i]) > 0)
       => (/\ rc' = SUCCESS
           /\ PopAll(buffer', pPop', pPush', rBufSize) = flushed)]_vars

\* C39: what the last commit stored is a chain of blocks that tiles the
\* ring buffer and has no header 0x00
C39_FlushedChainClosed ==
  esp => (/\ Chain(flash).total = rBufSize
          /\ Chain(flash).last = BotBlock(flash)
          /\ \A pBlock \in ChainBlocks(flash) : EE_READ(flash, pBlock) # 0)

\* power is lost with two records queued, of which the commit before had
\* stored the first only
C39_Witness ==
  /\ op = "crash"
  /\ rc = SUCCESS
  /\ Len(pushed) = 1
  /\ pPop # pPush

\* the records the reads would deliver, one after the other, until
\* FIFO_EMPTY
RECURSIVE MarkReadAll(_, _, _, _)
MarkReadAll(buf, read, push, fuel) ==
  IF read = push \/ fuel = 0 THEN <<>>
  ELSE LET r == MarkReadData(buf, read, DATA_SIZE_MAX) IN
       <<r.data>> \o MarkReadAll(buf, r.pBlock, push, fuel - 1)

\* with the two bit status, a read that returns SUCCESS writes the read
\* status into the header of the block it delivers and nothing else
C40_ReadWritesReadStatus ==
  [][(op' = "read" /\ rc' = SUCCESS)
       => (/\ MarkStatusOf(EE_READ(buffer', pRead)) = READ_BLOCK
           /\ MarkSpanOf(EE_READ(buffer', pRead))
                = MarkSpanOf(EE_READ(buffer, pRead))
           /\ \A addr \in DOMAIN buffer \ {pRead} :
                buffer'[addr] = buffer[addr])]_vars

\* C40: with the two bit status, a read that returns SUCCESS writes the
\* read status into the header of the block it delivers, and after a power
\* cycle begin returns SUCCESS and the reads that follow deliver the records
\* pushed and not yet read, in push order, and no record read before.
C40_ReadMarksPersist ==
  /\ [][(op' = "read" /\ rc' = SUCCESS)
          => MarkStatusOf(EE_READ(buffer', pRead)) = READ_BLOCK]_vars
  /\ [][op' = "powercycle"
          => (/\ rc' = SUCCESS
              /\ MarkReadAll(buffer', pRead', pPush', rBufSize)
                   = SubSeq(pushed, nread + 1, Len(pushed)))]_vars

====
